---- MODULE Spec2Model ----
(***************************************************************************)
(* Model of the mortgage-db reload pipeline: loaders/orchestrator.py runs  *)
(* clear, reference data, sample data, business rules, relationships, the  *)
(* knowledge-graph inference passes of loaders/create_knowledge_graph and   *)
(* the schema alignment.  Spec is one load in which every query succeeds;   *)
(* SpecReload adds a second run of the knowledge-graph pass without        *)
(* clearing and a second load; SpecFail adds queries that fail;            *)
(* SpecConnect is the connection object and the start-up polling.          *)
(*                                                                         *)
(* Conventions.                                                            *)
(*  - An optional property is a sequence of length 0 or 1: Null is the     *)
(*    Cypher null, Some(v) a present value.  A comparison with null is     *)
(*    never true (Cypher's three-valued logic in WHERE and CASE WHEN).     *)
(*  - calculated_dti is the exact ratio <<num, den>> in lowest terms.  The *)
(*    code divides IEEE doubles; for integer operands below 2^53 the       *)
(*    quotient is the double nearest the exact ratio, and the nearest      *)
(*    threshold literal differs from any other ratio by at least           *)
(*    1/(100 * income), far above one ulp, so every comparison below       *)
(*    agrees with the exact one.                                           *)
(*  - down_payment_percentage is held in thousandths (the generator rounds *)
(*    to three decimals): 0.20 is 200, 0.05 is 50.                         *)
(*  - Edges form a bag: Neo4j keeps parallel identical relationships.      *)
(***************************************************************************)
EXTENDS Integers, Sequences, FiniteSets, Bags, TLC

VARIABLES
    people,                 \* input: core_data/sample_data/people.json
    applications,           \* input: core_data/sample_data/applications.json
    companies,              \* input: core_data/sample_data/companies.json
    rand,                   \* what the rand() calls of this load come to
    otherNodes,             \* bag of the nodes of every other label, as <<label, id>>
    atr_compliance,         \* Application.atr_compliance
    kg_edges,               \* the edges the knowledge-graph pass created
    phases,                 \* the phases load_all_data has started, in order
    failed,                 \* the phase that reported failure to load_all_data
    result,                 \* what load_all_data returned
    errors,                 \* the steps of this load in which a query raised
    loads,                  \* number of the current load_all_data call
    links,                  \* create_knowledge_graph runs since the last clear
    first_link,             \* kg_edges when the first run of the pass ended
    first_load,             \* Derived when the first load ended
    personNodes,            \* indices of people present as (:Person) nodes
    appNodes,               \* indices of applications present as (:Application)
    personLabels,           \* extra labels set on each Person node
    appLabels,              \* extra labels set on each Application node
    calculated_dti,         \* Application.calculated_dti
    calculated_risk_score,  \* Application.calculated_risk_score
    risk_category,          \* Application.risk_category
    programs,               \* bag of (:LoanProgram) names
    rules,                  \* bag of rule nodes [label, rule_id, rule_type]
    edges,                  \* bag of relationships
    risk_writes,            \* rows of the risk-scoring query that SET the score
    pc,                     \* position of load_all_data
    config,                 \* the Neo4j settings the connection reads
    server,                 \* what the Neo4j server does with a connection
    driver,                 \* Neo4jConnection._driver: "None" or "Driver"
    lifecycle,              \* the last connect() or disconnect() and its result
    last_query,             \* the last execute_query: outcome and lifecycle then
    wait,                   \* wait_for_neo4j: position, attempts, sleeps, time
    phases_run              \* phases initialize_complete_database has run

vars == <<people, applications, companies, rand, otherNodes, atr_compliance,
          kg_edges, phases, failed, result, errors, loads, links, first_link,
          first_load, personNodes, appNodes, personLabels, appLabels,
          calculated_dti, calculated_risk_score, risk_category, programs,
          rules, edges, risk_writes, pc,
          config, server, driver, lifecycle, last_query, wait, phases_run>>

inputs == <<people, applications, companies>>

\* the connection object and what initialize_database.py does with it
connection ==
    <<config, server, driver, lifecycle, last_query, wait, phases_run>>

\* what only the start of a further load or run changes
runs == <<rand, loads, links, first_link, first_load>>

\* what only a failing query or the end of a load changes
outcome == <<failed, result, errors>>

----------------------------------------------------------------------------
(* Optional values and Cypher comparisons                                  *)

Null == <<>>
Some(v) == <<v>>

\* x >= c, x <= c, x > c on an optional integer: true only when x is present
GE(x, c) == x # Null /\ x[1] >= c
LE(x, c) == x # Null /\ x[1] <= c
GT(x, c) == x # Null /\ x[1] > c

RECURSIVE GCD(_, _)
GCD(a, b) == IF b = 0 THEN a ELSE GCD(b, a % b)

\* the exact ratio, debts over income, income > 0 and debts >= 0, in lowest terms
Ratio(debts, income) ==
    LET g == GCD(debts, income) IN <<debts \div g, income \div g>>

\* ratio r <= n/100 and r > n/100 on an optional ratio
RatioLE(r, n) == r # Null /\ r[1] * 100 <= n * r[2]
RatioGT(r, n) == r # Null /\ r[1] * 100 > n * r[2]

----------------------------------------------------------------------------
(* Input records (the JSON files load_sample_data reads)                   *)

MaxPersons == 2     \* people in a multi-record input
MaxApps == 2        \* applications in a multi-record input
MaxLoads == 2       \* load_all_data calls in one behaviour
MaxLinks == 2       \* create_knowledge_graph runs between two clears
MaxSubjectTo == 1   \* rows that pass "rand() < 0.3" in one load

\* Person: suffix is substring(person_id, 7), the part APPLIES_FOR is matched on
Person(sfx, cs, pt, fn) ==
    [suffix |-> sfx, credit_score |-> cs, person_type |-> pt, first_name |-> fn]

\* Application: owner is the segment of application_id between "APP_" and "_"
Application(own, inc, debts, dp, loan) ==
    [owner |-> own, monthly_income |-> inc, monthly_debts |-> debts,
     down_payment_percentage |-> dp, loan_amount |-> loan]

Opt(S) == {Some(v) : v \in S} \cup {Null}

CreditScores ==
    {300, 579, 580, 619, 620, 679, 680, 681, 699, 700, 720, 739, 740, 750}

\* <<monthly_income, monthly_debts>>; with income 100 the debts are the DTI in percent
IncomeDebts ==
    {<<Some(100), Some(d)>> :
        d \in {0, 20, 28, 29, 36, 37, 38, 39, 43, 44, 50, 57, 58}}
    \cup {<<Some(10000), Some(2000)>>, <<Some(3), Some(1)>>,
          <<Some(0), Some(50)>>, <<Null, Some(50)>>, <<Some(100), Null>>,
          <<Some(0 - 100), Some(50)>>, <<Some(100), Some(0 - 5)>>}

DownPayments == {0, 49, 50, 51, 99, 100, 199, 200, 250}

LoanAmounts == {400000, 766550, 766551, 900000}

\* <<person_type, first_name>>
Borrower == <<"borrower", "Alex">>
Indicators == {Borrower, <<"veteran", "Alex">>, <<"borrower", "Military Mike">>}

\* one applicant linked to one application: every tier of the three scores
ScoringInputs ==
    {<<Person("001", cs, Borrower[1], Borrower[2]),
       Application("001", m[1], m[2], dp, Some(400000))>> :
        cs \in Opt(CreditScores), m \in IncomeDebts, dp \in Opt(DownPayments)}

\* one applicant, one application around the Jumbo thresholds
JumboInputs ==
    {<<Person("001", cs, Borrower[1], Borrower[2]),
       Application("001", m[1], m[2], dp, loan)>> :
        cs \in Opt({699, 700, 720}),
        m \in {<<Some(100), Some(38)>>, <<Some(100), Some(39)>>,
               <<Some(10000), Some(2000)>>, <<Some(0), Some(50)>>},
        dp \in Opt({199, 200, 250}), loan \in Opt(LoanAmounts)}

\* one applicant, one application, with and without the veteran indicator
VeteranInputs ==
    {<<Person("001", cs, k[1], k[2]), Application("001", m[1], m[2], dp, loan)>> :
        cs \in Opt({300, 750}), k \in Indicators,
        m \in {<<Some(100), Some(20)>>, <<Some(100), Some(58)>>, <<Some(0), Some(50)>>},
        dp \in {Some(0), Some(250)}, loan \in Opt(LoanAmounts)}

\* several records: co-applicants, a person with two applications, an
\* application whose owner segment matches no person
MultiPeople ==
    {Person(sfx, ck[1], ck[2], "Alex") :
        sfx \in {"001", "002"},
        ck \in {<<Some(620), "veteran">>, <<Some(740), "borrower">>}}
MultiApplications ==
    {Application(own, Some(100), Some(43), dl[1], dl[2]) :
        own \in {"001", "003"},
        dl \in {<<Some(50), Some(400000)>>, <<Some(200), Some(900000)>>}}

\* two applicants with one application each, on the thresholds of the Jumbo
\* qualification and of the FHA recommendation
BoundaryPeople ==
    <<Person("001", Some(700), Borrower[1], Borrower[2]),
      Person("002", Some(680), Borrower[1], Borrower[2])>>
BoundaryApplications ==
    <<Application("001", Some(100), Some(38), Some(200), Some(766551)),
      Application("002", Some(100), Some(28), Some(50), Some(400000))>>

\* an applicant without credit_score whose application has neither income nor
\* down_payment_percentage, and an application that no person applies for
AbsentPeople == <<Person("001", Null, Borrower[1], Borrower[2])>>
AbsentApplications ==
    <<Application("001", Null, Some(50), Null, Some(400000)),
      Application("003", Some(100), Some(20), Some(200), Some(400000))>>

\* one applicant with one application and at most one company: employment
EmploymentPeople ==
    {Person("001", Some(cs), pt, "Alex") :
        cs \in {619, 740}, pt \in {"borrower", "self_employed"}}
EmploymentApplications ==
    {Application("001", inc, Some(20), Some(50), Some(600000)) :
        inc \in {Some(100), Null}}
\* applications with and without a loan_amount
FailApplications ==
    {Application("001", Some(100), Some(20), Some(50), loan) :
        loan \in {Some(600000), Null}}
Company(ct) == [company_type |-> ct]
CompanyFiles == {<<>>, <<Company("employer")>>, <<Company("sole_proprietorship")>>}

\* two applicants of different credit tiers on one application
CoApplicants ==
    <<Person("001", Some(740), "borrower", "Alex"),
      Person("001", Some(620), "self_employed", "Alex")>>
SharedApplication == Application("001", Some(100), Some(43), Some(200), Some(900000))

Persons == DOMAIN people
Apps == DOMAIN applications
Companies == DOMAIN companies

NoLabels(S) == [x \in S |-> {}]
NoValue(S) == [x \in S |-> Null]

----------------------------------------------------------------------------
(* Graph helpers                                                           *)

PersonRef(p) == <<"Person", p>>
AppRef(a) == <<"Application", a>>
ProgramRef(name) == <<"LoanProgram", name>>
RuleRef(r) == <<r.label, r.rule_id>>

Edge(t, from, to, pr) == [type |-> t, src |-> from, dst |-> to, props |-> pr]

\* CREATE once per row: identical edges of different rows are parallel edges
Created(rows, F(_)) ==
    LET made == {F(r) : r \in rows}
    IN  [e \in made |-> Cardinality({r \in rows : F(r) = e})]

AppliesFor(p, a) ==
    Edge("APPLIES_FOR", PersonRef(p), AppRef(a),
         [application_date |-> "a.application_date"])

\* MATCH (p:Person)-[:APPLIES_FOR]->(a:Application): one row <<p, a, k>> per edge
MatchAppliesFor ==
    UNION {{<<pa[1], pa[2], k>> : k \in 1..CopiesIn(AppliesFor(pa[1], pa[2]), edges)} :
            pa \in personNodes \X appNodes}

\* MATCH (lp:LoanProgram) WHERE lp.name IN names: one row <<name, k>> per node
MatchPrograms(names) ==
    UNION {{<<n, k>> : k \in 1..CopiesIn(n, programs)} : n \in names}

\* mutant: the rule records are matched by label alone
MatchRules_by_label(label, rule_type) ==
    UNION {{<<r, k>> : k \in 1..CopiesIn(r, rules)} :
            r \in {x \in BagToSet(rules) : x.label = label}}

\* MATCH (r:<label>) WHERE r.rule_type = <rule_type>: one row <<r, k>> per node
MatchRules(label, rule_type) ==
    UNION {{<<r, k>> : k \in 1..CopiesIn(r, rules)} :
            r \in {x \in BagToSet(rules) :
                     x.label = label /\ x.rule_type = Some(rule_type)}}

----------------------------------------------------------------------------
(* load_all_data, phases 1 to 5                                            *)

\* mutant: the knowledge graph is created before the basic relationships
PhaseOrder_graph_first ==
    <<"clear", "reference", "sample", "rules", "knowledge_graph",
      "relationships", "alignment">>

\* the phases of load_all_data, in the order of its code
PhaseOrder ==
    <<"clear", "reference", "sample", "rules", "relationships",
      "knowledge_graph", "alignment">>

\* the step with which each phase begins
FirstStep ==
    [clear |-> "clear", reference |-> "reference", sample |-> "sample",
     rules |-> "rules", relationships |-> "ref_relationships",
     knowledge_graph |-> "credit_1", alignment |-> "align"]

PhaseNo(phase) == CHOOSE i \in 1..Len(PhaseOrder) : PhaseOrder[i] = phase

\* mutant: a phase that reports failure does not stop the load
AfterPhase_keeps_going(phase, ok) ==
    IF phase = "alignment" THEN "done"
    ELSE FirstStep[PhaseOrder[PhaseNo(phase) + 1]]

\* "if not <phase>(): return False": where load_all_data goes after a phase
AfterPhase(phase, ok) ==
    IF ~ok \/ phase = "alignment" THEN "done"
    ELSE FirstStep[PhaseOrder[PhaseNo(phase) + 1]]

\* mutant: the clear list without the Location query
ClearedLabels_without_location ==
    {"LoanProgram", "QualificationRequirement", "DocumentRequirement",
     "ProcessStep", "BorrowerProfile", "LoanLimit", "BusinessRule",
     "ScoringRule", "QualificationThreshold", "SpecialRequirement",
     "ImprovementStrategy", "DocumentVerificationRule",
     "IncomeCalculationRule", "PropertyAppraisalRule", "UnderwritingRule",
     "ComplianceRule", "RatePricingRule", "IDVerificationRule",
     "ApplicationIntakeRule", "Person", "Property", "Application",
     "Document", "Company"}

\* the labels clear_all_data deletes with DETACH DELETE
ClearedLabels ==
    {"LoanProgram", "QualificationRequirement", "DocumentRequirement",
     "ProcessStep", "BorrowerProfile", "LoanLimit", "BusinessRule",
     "ScoringRule", "QualificationThreshold", "SpecialRequirement",
     "ImprovementStrategy", "DocumentVerificationRule",
     "IncomeCalculationRule", "PropertyAppraisalRule", "UnderwritingRule",
     "ComplianceRule", "RatePricingRule", "IDVerificationRule",
     "ApplicationIntakeRule", "Person", "Property", "Application",
     "Document", "Company", "Location"}

Keep(B, ok(_)) ==
    LET kept == {x \in BagToSet(B) : ok(x)} IN [x \in kept |-> B[x]]

\* MATCH (n:<label>) DETACH DELETE n, for every label in deleted
DetachDelete(deleted) ==
    /\ personNodes' = IF "Person" \in deleted THEN {} ELSE personNodes
    /\ appNodes' = IF "Application" \in deleted THEN {} ELSE appNodes
    /\ programs' = IF "LoanProgram" \in deleted THEN EmptyBag ELSE programs
    /\ rules' = LET stays(r) == r.label \notin deleted IN Keep(rules, stays)
    /\ otherNodes' = LET stays(n) == n[1] \notin deleted IN Keep(otherNodes, stays)
    /\ LET stays(e) == e.src[1] \notin deleted /\ e.dst[1] \notin deleted
       IN  /\ edges' = Keep(edges, stays)
           /\ kg_edges' = Keep(kg_edges, stays)
    /\ personLabels' = [p \in Persons |->
                          IF p \in personNodes' THEN personLabels[p] ELSE {}]
    /\ appLabels' = [a \in Apps |-> IF a \in appNodes' THEN appLabels[a] ELSE {}]
    /\ calculated_dti' = [a \in Apps |->
                            IF a \in appNodes' THEN calculated_dti[a] ELSE Null]
    /\ calculated_risk_score' =
          [a \in Apps |-> IF a \in appNodes' THEN calculated_risk_score[a] ELSE Null]
    /\ risk_category' = [a \in Apps |->
                           IF a \in appNodes' THEN risk_category[a] ELSE Null]
    /\ atr_compliance' = [a \in Apps |->
                            IF a \in appNodes' THEN atr_compliance[a] ELSE Null]

clear_all_data ==
    /\ pc = "clear"
    /\ DetachDelete(ClearedLabels)
    /\ risk_writes' = {}
    /\ phases' = Append(phases, "clear")
    /\ pc' = AfterPhase("clear", TRUE)
    /\ UNCHANGED <<inputs, connection, runs, outcome>>

\* the "name" of each entry of loan_programs
LoanProgramNames == {"FHA", "VA", "USDA", "CONVENTIONAL", "JUMBO"}

load_loan_programs ==
    /\ pc = "reference"
    /\ programs' = programs (+) SetToBag(LoanProgramNames)
    /\ phases' = Append(phases, "reference")
    /\ pc' = "profiles"
    /\ UNCHANGED <<inputs, connection, runs, outcome, otherNodes, atr_compliance, kg_edges,
                   risk_writes, personNodes, appNodes, personLabels, appLabels,
                   calculated_dti, calculated_risk_score, risk_category,
                   rules, edges>>

ProfileRef(name) == <<"BorrowerProfile", name>>
CompanyRef(c) == <<"Company", c>>

\* the "profile_name" of each entry of profiles
BorrowerProfileNames ==
    {"FirstTimeBuyer", "HighIncomeStrongCredit", "SelfEmployed", "Veteran"}

\* one node stands for the nodes of a label that no query modelled here reads
NodesOf(labels) == SetToBag({<<l, "node">> : l \in labels})

\* the labels load_qualification_requirements and load_process_steps create
RequirementLabels == {"QualificationRequirement", "ProcessStep"}

\* load_qualification_requirements, load_process_steps, load_borrower_profiles
load_borrower_profiles ==
    /\ pc = "profiles"
    /\ otherNodes' = otherNodes (+) NodesOf(RequirementLabels)
                        (+) SetToBag({ProfileRef(n) : n \in BorrowerProfileNames})
    /\ pc' = AfterPhase("reference", TRUE)
    /\ UNCHANGED <<inputs, connection, runs, outcome, phases, atr_compliance, kg_edges,
                   risk_writes, personNodes, appNodes, personLabels, appLabels,
                   calculated_dti, calculated_risk_score, risk_category,
                   programs, rules, edges>>

\* the labels of locations.json, properties.json and documents.json
SampleLabels == {"Location", "Property", "Document"}

\* CREATE (c:Company {...}), (p:Person {...}) and (app:Application {...}) for
\* every record of the files, and the nodes of the other three files
load_sample_data ==
    /\ pc = "sample"
    /\ otherNodes' = otherNodes (+) NodesOf(SampleLabels)
                        (+) SetToBag({CompanyRef(c) : c \in Companies})
    /\ personNodes' = personNodes \cup Persons
    /\ appNodes' = appNodes \cup Apps
    /\ phases' = Append(phases, "sample")
    /\ pc' = AfterPhase("sample", TRUE)
    /\ UNCHANGED <<inputs, connection, runs, outcome, atr_compliance, kg_edges,
                   risk_writes, personLabels, appLabels, calculated_dti,
                   calculated_risk_score, risk_category, programs, rules, edges>>

Rule(l, id, rt) == [label |-> l, rule_id |-> id, rule_type |-> rt]

\* business_rules: rule_type and category of each entry (a BusinessRule has no rule_id)
BusinessRules ==
    {Rule("BusinessRule", c[1], Some(c[2])) :
        c \in {<<"credit/excellent", "CreditScoreAssessment">>,
               <<"credit/good", "CreditScoreAssessment">>,
               <<"credit/fair", "CreditScoreAssessment">>,
               <<"credit/poor", "CreditScoreAssessment">>,
               <<"down/excellent", "DownPaymentAssessment">>,
               <<"down/good", "DownPaymentAssessment">>,
               <<"down/fair", "DownPaymentAssessment">>,
               <<"down/limited", "DownPaymentAssessment">>,
               <<"dti/excellent", "DTIAssessment">>,
               <<"dti/good", "DTIAssessment">>,
               <<"dti/high", "DTIAssessment">>}}

\* mutant: a catalog that holds the two routing rule records
UnderwritingRules_with_routing ==
    {Rule("UnderwritingRule", c[1], c[2]) :
        c \in {<<"CREDIT_SCORE_MINIMUM", Some("minimum_requirements")>>,
               <<"ROUTE_AUTO_APPROVAL", Some("AutoApproval")>>,
               <<"ROUTE_MANUAL_REVIEW", Some("ManualReview")>>}}

\* underwriting_rules: rule_id and rule_type of each entry; the last five
\* entries have no "rule_type" key, so rule.get stores null
UnderwritingRules ==
    {Rule("UnderwritingRule", c[1], c[2]) :
        c \in {<<"CREDIT_SCORE_MINIMUM", Some("minimum_requirements")>>,
               <<"CREDIT_DEROGATORY_EVENTS", Some("derogatory_analysis")>>,
               <<"CREDIT_TRADELINE_ANALYSIS", Some("tradeline_requirements")>>,
               <<"INCOME_STABILITY_EMPLOYMENT", Some("employment_stability")>>,
               <<"INCOME_CALCULATION_VALIDATION", Some("income_calculation")>>,
               <<"ASSET_VERIFICATION_REQUIREMENTS", Some("asset_verification")>>,
               <<"ASSET_LARGE_DEPOSITS", Some("large_deposit_analysis")>>,
               <<"DTI_RATIO_LIMITS", Some("ratio_limits")>>,
               <<"DTI_DEBT_CALCULATION", Some("debt_calculation")>>,
               <<"COMPENSATING_FACTORS_STRONG", Some("strong_factors")>>,
               <<"COMPENSATING_FACTORS_MODERATE", Some("moderate_factors")>>,
               <<"CONDITIONS_PRIOR_TO_DOCS", Null>>,
               <<"CONDITIONS_PRIOR_TO_FUNDING", Null>>,
               <<"RISK_LAYERED_ASSESSMENT", Null>>,
               <<"RISK_FIRST_TIME_BUYER", Null>>,
               <<"RISK_INVESTMENT_PROPERTY", Null>>}}

\* compliance_rules: rule_id and rule_type of each entry
ComplianceRules ==
    {Rule("ComplianceRule", c[1], Some(c[2])) :
        c \in {<<"QM_ATR_BASIC_REQUIREMENTS", "basic_requirements">>,
               <<"QM_POINTS_AND_FEES", "points_and_fees">>,
               <<"QM_GENERAL_PROHIBITIONS", "prohibited_features">>,
               <<"TRID_LOAN_ESTIMATE_TIMING", "loan_estimate">>,
               <<"TRID_CLOSING_DISCLOSURE_TIMING", "closing_disclosure">>,
               <<"TRID_TOLERANCE_CATEGORIES", "fee_tolerances">>,
               <<"FAIR_LENDING_ECOA", "ecoa_compliance">>,
               <<"FAIR_LENDING_FHA", "fair_housing_act">>,
               <<"FAIR_LENDING_PRICING", "pricing_practices">>,
               <<"HMDA_REPORTING_REQUIREMENTS", "reporting_requirements">>,
               <<"HMDA_DATA_ACCURACY", "data_accuracy">>,
               <<"STATE_LICENSING_REQUIREMENTS", "originator_licensing">>,
               <<"STATE_DISCLOSURE_REQUIREMENTS", "additional_disclosures">>,
               <<"STATE_USURY_LIMITS", "interest_rate_limits">>}}

\* document_rules: rule_id of each entry; the CREATE sets no rule_type
DocumentVerificationRules ==
    {Rule("DocumentVerificationRule", id, Null) :
        id \in {"PAY_STUB_STANDARD", "PAY_STUB_COMMISSION", "PAY_STUB_HOURLY",
                "TAX_RETURN_W2_STANDARD", "TAX_RETURN_SELF_EMPLOYED",
                "TAX_RETURN_RENTAL_INCOME", "BANK_STATEMENT_STANDARD",
                "BANK_STATEMENT_GIFT_FUNDS", "BANK_STATEMENT_BUSINESS",
                "EMPLOYMENT_VOE_STANDARD", "EMPLOYMENT_VOE_PROBATION",
                "EMPLOYMENT_OFFER_LETTER", "ASSET_401K_STATEMENT",
                "ASSET_STOCK_BONDS", "ASSET_CHECKING_SAVINGS",
                "SELF_EMPLOYED_PL_STATEMENT", "SELF_EMPLOYED_BUSINESS_LICENSE",
                "SELF_EMPLOYED_ACCOUNTANT_LETTER", "PROPERTY_PURCHASE_CONTRACT",
                "PROPERTY_HOMEOWNERS_INSURANCE", "PROPERTY_APPRAISAL_REPORT",
                "CREDIT_EXPLANATION_LETTER", "CREDIT_DISPUTE_RESOLUTION",
                "CREDIT_REPORT_RESIDENTIAL"}}

\* the labels of the rule loaders whose nodes no query modelled here matches
OtherRuleLabels ==
    {"ApplicationIntakeRule", "IDVerificationRule", "IncomeCalculationRule",
     "PropertyAppraisalRule", "ScoringRule", "QualificationThreshold",
     "SpecialRequirement", "RatePricingRule", "ImprovementStrategy"}

\* the thirteen rule loaders: the records of four of them, one node for each
\* of the others
load_business_rules ==
    /\ pc = "rules"
    /\ rules' = rules (+) SetToBag(DocumentVerificationRules)
                      (+) SetToBag(BusinessRules) (+) SetToBag(UnderwritingRules)
                      (+) SetToBag(ComplianceRules)
    /\ otherNodes' = otherNodes (+) NodesOf(OtherRuleLabels)
    /\ phases' = Append(phases, "rules")
    /\ pc' = AfterPhase("rules", TRUE)
    /\ UNCHANGED <<inputs, connection, runs, outcome, atr_compliance, kg_edges,
                   risk_writes, personNodes, appNodes, personLabels, appLabels,
                   calculated_dti, calculated_risk_score, risk_category,
                   programs, edges>>

\* MATCH (bp:BorrowerProfile {profile_name: ...}): one row <<name, k>> per node
MatchProfiles(names) ==
    UNION {{<<n, k>> : k \in 1..CopiesIn(ProfileRef(n), otherNodes)} : n \in names}

\* relationship_queries 1 to 4: <<profile_name, lp.name IN ..., priority>>
Recommends ==
    {<<"FirstTimeBuyer", {"FHA", "VA", "USDA"}, "high">>,
     <<"HighIncomeStrongCredit", {"Conventional", "Jumbo"}, "high">>,
     <<"SelfEmployed", {"Conventional", "FHA"}, "medium">>,
     <<"Veteran", {"VA"}, "highest">>}

\* relationship_queries 5: <<profile_name, lp.name IN ...>>
RecommendedFor ==
    {<<"FirstTimeBuyer", {"FHA", "VA", "USDA", "Conventional"}>>,
     <<"HighIncomeStrongCredit", {"Conventional", "Jumbo"}>>,
     <<"SelfEmployed", {"Conventional", "FHA"}>>,
     <<"Veteran", {"VA", "FHA"}>>}

\* the edges of the queries in "run"; queries 6 to 8 join labels that no
\* query modelled here reads
ReferenceEdges(run) ==
    LET recommends(q) ==
            LET made(x) == Edge("RECOMMENDS", ProfileRef(x[1][1]),
                                ProgramRef(x[2][1]), [priority |-> q[3]])
            IN  Created(MatchProfiles({q[1]}) \X MatchPrograms(q[2]), made)
        recommended(q) ==
            LET made(x) == Edge("RECOMMENDED_FOR", ProfileRef(x[1][1]),
                                ProgramRef(x[2][1]), << >>)
            IN  Created(MatchProfiles({q[1]}) \X MatchPrograms(q[2]), made)
        sum[S \in SUBSET (Recommends \cup RecommendedFor)] ==
            IF S = {} THEN EmptyBag
            ELSE LET q == CHOOSE x \in S : TRUE
                 IN  (IF q \in Recommends THEN recommends(q) ELSE recommended(q))
                        (+) sum[S \ {q}]
    IN  sum[run]

create_reference_data_relationships ==
    /\ pc = "ref_relationships"
    /\ edges' = edges (+) ReferenceEdges(Recommends \cup RecommendedFor)
    /\ phases' = Append(phases, "relationships")
    /\ pc' = "relationships"
    /\ UNCHANGED <<inputs, connection, runs, outcome, otherNodes, atr_compliance, kg_edges,
                   risk_writes, personNodes, appNodes, personLabels, appLabels,
                   calculated_dti, calculated_risk_score, risk_category,
                   programs, rules>>

\* a.application_id STARTS WITH 'APP_' + substring(p.person_id, 7) + '_'
IdsMatch(p, a) == applications[a].owner = people[p].suffix

\* query 4: the one row rand() lets through gets a WORKS_AT edge
WorksAt(p, c) ==
    Edge("WORKS_AT", PersonRef(p), CompanyRef(c),
         [position |-> "Employee", start_date |-> "date() - duration(rand())",
          employment_type |-> "full_time"])

WorksAtEdges ==
    IF /\ rand.works_at # Null
       /\ rand.works_at[1][1] \in personNodes
       /\ BagIn(CompanyRef(rand.works_at[1][2]), otherNodes)
    THEN SetToBag({WorksAt(rand.works_at[1][1], rand.works_at[1][2])})
    ELSE EmptyBag

ELIGIBLE_LIMIT == 200       \* WITH a, lp LIMIT 200
PROFILE_LIMIT == 300        \* WITH p, bp LIMIT 300

\* the rows LIMIT n lets through: all of them up to n, else any n of them
Limited(rows, n) ==
    IF Cardinality(rows) <= n THEN {rows}
    ELSE {chosen \in SUBSET rows : Cardinality(chosen) = n}

\* query 8: the WHERE clause on (a:Application), (lp:LoanProgram)
ProgramFits(a, name) ==
    \/ name = "FHA" /\ LE(applications[a].down_payment_percentage, 50)
    \/ name = "VA" /\ applications[a].down_payment_percentage = Some(0)
    \/ name = "Conventional" /\ GE(applications[a].down_payment_percentage, 30)
    \/ name = "USDA" /\ applications[a].down_payment_percentage = Some(0)
    \/ name = "Jumbo" /\ GT(applications[a].loan_amount, 766550)

\* query 9: the WHERE clause on (p:Person), (bp:BorrowerProfile)
ProfileFits(p, name) ==
    \/ /\ name = "FirstTimeBuyer"
       /\ GE(people[p].credit_score, 580) /\ LE(people[p].credit_score, 680)
    \/ name = "HighIncomeStrongCredit" /\ GE(people[p].credit_score, 740)
    \/ /\ name = "SelfEmployed"
       /\ GE(people[p].credit_score, 620) /\ LE(people[p].credit_score, 740)

\* queries 1 to 3, 6 and 7 join Location, Property and Document nodes, which
\* no query modelled here reads
create_sample_data_relationships ==
    /\ pc = "relationships"
    /\ LET applies == {pa \in personNodes \X appNodes : IdsMatch(pa[1], pa[2])}
           applied(pa) == AppliesFor(pa[1], pa[2])
           eligible == {x \in appNodes \X MatchPrograms(BagToSet(programs)) :
                           ProgramFits(x[1], x[2][1])}
           fits(x) == Edge("ELIGIBLE_FOR", AppRef(x[1]), ProgramRef(x[2][1]), << >>)
           profiled == {x \in personNodes \X MatchProfiles(BorrowerProfileNames) :
                           ProfileFits(x[1], x[2][1])}
           matches(x) == Edge("MATCHES_PROFILE", PersonRef(x[1]),
                              ProfileRef(x[2][1]), << >>)
       IN  \E some_eligible \in Limited(eligible, ELIGIBLE_LIMIT),
              some_profiled \in Limited(profiled, PROFILE_LIMIT) :
               edges' = edges (+) WorksAtEdges (+) Created(applies, applied)
                              (+) Created(some_eligible, fits)
                              (+) Created(some_profiled, matches)
    /\ pc' = "kg_relationships"
    /\ UNCHANGED <<inputs, connection, runs, outcome, otherNodes, atr_compliance, kg_edges, phases,
                   risk_writes, personNodes, appNodes, personLabels, appLabels,
                   calculated_dti, calculated_risk_score, risk_category,
                   programs, rules>>

\* rule_type values the SUBJECT_TO query looks for
SubjectToRuleTypes ==
    {"CreditScoreAssessment", "DebtToIncomeCalculation", "IncomeVerification"}

\* mutant: the business-rule loader marks its edges like the inference pass
SubjectTo_marked(a, rule) ==
    Edge("SUBJECT_TO", AppRef(a), RuleRef(rule),
         [applies_date |-> "a.application_date", rule_version |-> "1.0",
          created_by |-> "knowledge_graph"])

\* query 1: the rows of (a:Application), (rule:BusinessRule) that rand() lets
\* through; query 2 looks for BusinessRule nodes of these two rule_type values
SubjectTo(a, rule) ==
    Edge("SUBJECT_TO", AppRef(a), RuleRef(rule),
         [applies_date |-> "a.application_date", rule_version |-> "1.0"])

SubjectToEdges ==
    LET subject == {x \in appNodes \X UNION {MatchRules("BusinessRule", t) :
                                               t \in SubjectToRuleTypes} :
                       /\ applications[x[1]].monthly_income # Null
                       /\ <<x[1], x[2][1].rule_id>> \in rand.subject_to}
        made(x) == SubjectTo(x[1], x[2][1])
    IN  Created(subject, made)

GovernedByEdges ==
    LET governs == MatchPrograms(BagToSet(programs))
                      \X UNION {MatchRules("BusinessRule", t) :
                                  t \in {"LoanProgramRequirements",
                                         "QualificationGuidelines"}}
        governed(x) == Edge("GOVERNED_BY", ProgramRef(x[1][1]), RuleRef(x[2][1]), << >>)
    IN  Created(governs, governed)

KnowledgeGraphRelationships == SubjectToEdges (+) GovernedByEdges

create_knowledge_graph_relationships ==
    /\ pc = "kg_relationships"
    /\ edges' = edges (+) KnowledgeGraphRelationships
    /\ pc' = AfterPhase("relationships", TRUE)
    /\ UNCHANGED <<inputs, connection, runs, outcome, otherNodes, atr_compliance, kg_edges, phases,
                   risk_writes, personNodes, appNodes, personLabels, appLabels,
                   calculated_dti, calculated_risk_score, risk_category,
                   programs, rules>>

----------------------------------------------------------------------------
(* create_knowledge_graph, phase 1: create_credit_score_knowledge          *)

AddLabel(labels, nodes, l) ==
    [x \in DOMAIN labels |-> IF x \in nodes THEN labels[x] \cup {l} ELSE labels[x]]

Credit(p) == people[p].credit_score

\* the WHERE clause of each of the three risk_queries
IsExcellentCredit(p) == GE(Credit(p), 740)
\* mutant: the good band reaches up to 740, where the excellent band begins
IsGoodCredit_to_740(p) == GE(Credit(p), 620) /\ LE(Credit(p), 740)

IsGoodCredit(p) == GE(Credit(p), 620) /\ LE(Credit(p), 739)
IsFairCredit(p) == GE(Credit(p), 580) /\ LE(Credit(p), 619)

\* mutant: MERGE in place of CREATE, an edge that exists is not created again
QualifiesFor_merged(rows, confidence, reason) ==
    LET made(r) == Edge("QUALIFIES_FOR", PersonRef(r[1]), ProgramRef(r[2][1]),
                        [confidence |-> confidence, reason |-> reason,
                         created_by |-> "knowledge_graph"])
    IN  [e \in {made(r) : r \in rows} \ BagToSet(edges) |-> 1]

QualifiesFor(rows, confidence, reason) ==
    LET made(r) == Edge("QUALIFIES_FOR", PersonRef(r[1]), ProgramRef(r[2][1]),
                        [confidence |-> confidence, reason |-> reason,
                         created_by |-> "knowledge_graph"])
    IN  Created(rows, made)

credit_excellent ==
    /\ pc = "credit_1"
    /\ LET matched == {p \in personNodes : IsExcellentCredit(p)}
       IN  /\ personLabels' = AddLabel(personLabels, matched, "ExcellentCredit")
           /\ edges' = edges (+) QualifiesFor(
                  matched \X MatchPrograms({"Conventional", "Jumbo"}),
                  "high", "excellent_credit")
    /\ kg_edges' = kg_edges (+) (edges' (-) edges)
    /\ phases' = IF links = 1 THEN Append(phases, "knowledge_graph") ELSE phases
    /\ pc' = "credit_2"
    /\ UNCHANGED <<inputs, connection, runs, outcome, otherNodes, atr_compliance,
                   risk_writes, personNodes, appNodes, appLabels, calculated_dti,
                   calculated_risk_score, risk_category, programs, rules>>

credit_good ==
    /\ pc = "credit_2"
    /\ LET matched == {p \in personNodes : IsGoodCredit(p)}
       IN  /\ personLabels' = AddLabel(personLabels, matched, "GoodCredit")
           /\ edges' = edges (+) QualifiesFor(
                  matched \X MatchPrograms({"Conventional", "FHA", "VA"}),
                  "medium", "good_credit")
    /\ kg_edges' = kg_edges (+) (edges' (-) edges)
    /\ pc' = "credit_3"
    /\ UNCHANGED <<inputs, connection, runs, outcome, otherNodes, atr_compliance, phases,
                   risk_writes, personNodes, appNodes, appLabels, calculated_dti,
                   calculated_risk_score, risk_category, programs, rules>>

credit_fair ==
    /\ pc = "credit_3"
    /\ LET matched == {p \in personNodes : IsFairCredit(p)}
       IN  /\ personLabels' = AddLabel(personLabels, matched, "FairCredit")
           /\ edges' = edges (+) QualifiesFor(
                  matched \X MatchPrograms({"FHA", "VA"}),
                  "low", "fair_credit_needs_review")
    /\ kg_edges' = kg_edges (+) (edges' (-) edges)
    /\ pc' = "dti_1"
    /\ UNCHANGED <<inputs, connection, runs, outcome, otherNodes, atr_compliance, phases,
                   risk_writes, personNodes, appNodes, appLabels, calculated_dti,
                   calculated_risk_score, risk_category, programs, rules>>

----------------------------------------------------------------------------
(* phase 2: create_income_debt_knowledge                                   *)

Income(a) == applications[a].monthly_income
Debts(a) == applications[a].monthly_debts

\* mutant: a zero income passes the guard
HasDti_zero_income(a) == GE(Income(a), 0) /\ GE(Debts(a), 0)

\* WHERE a.monthly_income > 0 AND a.monthly_debts >= 0
HasDti(a) == GT(Income(a), 0) /\ GE(Debts(a), 0)

\* mutant: integer division, as without the "* 1.0"
dti_ratio_integer_division(a) == <<Debts(a)[1] \div Income(a)[1], 1>>

\* (a.monthly_debts * 1.0 / a.monthly_income) as dti_ratio
dti_ratio(a) == Ratio(Debts(a)[1], Income(a)[1])

\* mutant: the 0.28 boundary excluded from the low band
IsLowDti_strict(r) == r # Null /\ r[1] * 100 < 28 * r[2]

IsLowDti(r) == RatioLE(r, 28)
IsMediumDti(r) == RatioGT(r, 28) /\ RatioLE(r, 43)
IsHighDti(r) == RatioGT(r, 43)

\* the edge of the three dti_queries; dti is the value the query writes on it
DtiEdge(type, a, rule, dti, level) ==
    Edge(type, AppRef(a), RuleRef(rule),
         [rule_type |-> "debt_to_income", dti_ratio |-> dti,
          risk_level |-> level, created_by |-> "knowledge_graph"])

\* mutant: the DTI queries take any BusinessRule record for their rule
DtiRules_of_any_type ==
    UNION {{<<r, k>> : k \in 1..CopiesIn(r, rules)} :
            r \in {x \in BagToSet(rules) : x.label = "BusinessRule"}}

DtiRules == MatchRules("BusinessRule", "DebtToIncomeCalculation")

dti_low ==
    /\ pc = "dti_1"
    /\ LET rows == {r \in MatchAppliesFor : HasDti(r[2])}
           written == {r[2] : r \in rows}
           low == {r \in rows : IsLowDti(dti_ratio(r[2]))}
           made(x) == DtiEdge("MEETS_CRITERIA", x[1][2], x[2][1],
                              dti_ratio(x[1][2]), "low")
       IN  /\ calculated_dti' = [a \in Apps |->
                 IF a \in written THEN dti_ratio(a) ELSE calculated_dti[a]]
           /\ appLabels' = AddLabel(appLabels, {r[2] : r \in low}, "LowRiskDTI")
           /\ edges' = edges (+) Created(low \X DtiRules, made)
    /\ kg_edges' = kg_edges (+) (edges' (-) edges)
    /\ pc' = "dti_2"
    /\ UNCHANGED <<inputs, connection, runs, outcome, otherNodes, atr_compliance, phases,
                   risk_writes, personNodes, appNodes, personLabels,
                   calculated_risk_score, risk_category, programs, rules>>

dti_medium ==
    /\ pc = "dti_2"
    /\ LET matched == {a \in appNodes : IsMediumDti(calculated_dti[a])}
           made(x) == DtiEdge("REQUIRES_REVIEW", x[1], x[2][1],
                              calculated_dti[x[1]], "medium")
       IN  /\ appLabels' = AddLabel(appLabels, matched, "MediumRiskDTI")
           /\ edges' = edges (+) Created(matched \X DtiRules, made)
    /\ kg_edges' = kg_edges (+) (edges' (-) edges)
    /\ pc' = "dti_3"
    /\ UNCHANGED <<inputs, connection, runs, outcome, otherNodes, atr_compliance, phases,
                   risk_writes, personNodes, appNodes, personLabels, calculated_dti,
                   calculated_risk_score, risk_category, programs, rules>>

dti_high ==
    /\ pc = "dti_3"
    /\ LET matched == {a \in appNodes : IsHighDti(calculated_dti[a])}
           made(x) == DtiEdge("LIKELY_DENIED", x[1], x[2][1],
                              calculated_dti[x[1]], "high")
       IN  /\ appLabels' = AddLabel(appLabels, matched, "HighRiskDTI")
           /\ edges' = edges (+) Created(matched \X DtiRules, made)
    /\ kg_edges' = kg_edges (+) (edges' (-) edges)
    /\ pc' = "match_1"
    /\ UNCHANGED <<inputs, connection, runs, outcome, otherNodes, atr_compliance, phases,
                   risk_writes, personNodes, appNodes, personLabels, calculated_dti,
                   calculated_risk_score, risk_category, programs, rules>>

----------------------------------------------------------------------------
(* phase 3: create_loan_program_matching_knowledge                         *)

DownPayment(a) == applications[a].down_payment_percentage
LoanAmount(a) == applications[a].loan_amount

\* toLower(p.first_name) CONTAINS "military", on the first names of the inputs
ContainsMilitary(first_name) == first_name = "Military Mike"

\* WHERE p.person_type = "veteran" OR toLower(p.first_name) CONTAINS "military"
IsVeteran(p) ==
    people[p].person_type = "veteran" \/ ContainsMilitary(people[p].first_name)

\* mutant: 2 percent of the loan amount
down_payment_savings_two_percent(a) == Ratio(LoanAmount(a)[1] * 2, 100)

\* a.loan_amount * 0.20, as an exact ratio; a null product stores no property
down_payment_savings(a) == Ratio(LoanAmount(a)[1] * 20, 100)

VaEdge(p, a, name) ==
    Edge("RECOMMENDED_FOR", PersonRef(p), ProgramRef(name),
         IF LoanAmount(a) = Null
         THEN [program |-> "VA", reason |-> "veteran_status",
               priority |-> "highest", created_by |-> "knowledge_graph"]
         ELSE [program |-> "VA", reason |-> "veteran_status",
               priority |-> "highest",
               down_payment_savings |-> down_payment_savings(a),
               created_by |-> "knowledge_graph"])

match_va ==
    /\ pc = "match_1"
    /\ LET rows == {r \in MatchAppliesFor : IsVeteran(r[1])}
           made(x) == VaEdge(x[1][1], x[1][2], x[2][1])
       IN  edges' = edges (+) Created(rows \X MatchPrograms({"VA"}), made)
    /\ kg_edges' = kg_edges (+) (edges' (-) edges)
    /\ pc' = "match_2"
    /\ UNCHANGED <<inputs, connection, runs, outcome, otherNodes, atr_compliance, phases,
                   risk_writes, personNodes, appNodes, personLabels, appLabels,
                   calculated_dti, calculated_risk_score, risk_category,
                   programs, rules>>

\* mutant: the credit band starts at 620
FhaProfile_from_620(p, a) ==
    /\ LE(DownPayment(a), 50)
    /\ GE(Credit(p), 620) /\ LE(Credit(p), 680)
    /\ RatioLE(calculated_dti[a], 57)

\* the WHERE clause of the FHA recommendation
FhaProfile(p, a) ==
    /\ LE(DownPayment(a), 50)
    /\ GE(Credit(p), 580) /\ LE(Credit(p), 680)
    /\ RatioLE(calculated_dti[a], 57)

FhaEdge(p, name) ==
    Edge("RECOMMENDED_FOR", PersonRef(p), ProgramRef(name),
         [program |-> "FHA", reason |-> "first_time_buyer_profile",
          priority |-> "high",
          benefits |-> <<"Low down payment", "Flexible credit">>,
          created_by |-> "knowledge_graph"])

match_fha ==
    /\ pc = "match_2"
    /\ LET rows == {r \in MatchAppliesFor : FhaProfile(r[1], r[2])}
           made(x) == FhaEdge(x[1][1], x[2][1])
       IN  edges' = edges (+) Created(rows \X MatchPrograms({"FHA"}), made)
    /\ kg_edges' = kg_edges (+) (edges' (-) edges)
    /\ pc' = "match_3"
    /\ UNCHANGED <<inputs, connection, runs, outcome, otherNodes, atr_compliance, phases,
                   risk_writes, personNodes, appNodes, personLabels, appLabels,
                   calculated_dti, calculated_risk_score, risk_category,
                   programs, rules>>

\* the WHERE clause of the Jumbo qualification
JumboQualified(p, a) ==
    /\ GT(LoanAmount(a), 766550)
    /\ GE(Credit(p), 700)
    /\ GE(DownPayment(a), 200)
    /\ RatioLE(calculated_dti[a], 38)

JumboEdge(p, a, name) ==
    Edge("QUALIFIES_FOR", PersonRef(p), ProgramRef(name),
         [program |-> "Jumbo", reason |-> "high_value_property_qualified",
          priority |-> "medium", loan_amount |-> LoanAmount(a)[1],
          created_by |-> "knowledge_graph"])

match_jumbo ==
    /\ pc = "match_3"
    /\ LET rows == {r \in MatchAppliesFor : JumboQualified(r[1], r[2])}
           made(x) == JumboEdge(x[1][1], x[1][2], x[2][1])
       IN  edges' = edges (+) Created(rows \X MatchPrograms({"Jumbo"}), made)
    /\ kg_edges' = kg_edges (+) (edges' (-) edges)
    /\ pc' = "risk_1"
    /\ UNCHANGED <<inputs, connection, runs, outcome, otherNodes, atr_compliance, phases,
                   risk_writes, personNodes, appNodes, personLabels, appLabels,
                   calculated_dti, calculated_risk_score, risk_category,
                   programs, rules>>

----------------------------------------------------------------------------
(* phase 4: create_risk_assessment_knowledge                               *)

\* mutant: the 740 boundary excluded from the top tier
credit_score_points_strict(p) ==
    IF GT(Credit(p), 740) THEN 10
    ELSE IF GE(Credit(p), 680) THEN 8
    ELSE IF GE(Credit(p), 620) THEN 6
    ELSE 3

credit_score_points(p) ==
    IF GE(Credit(p), 740) THEN 10
    ELSE IF GE(Credit(p), 680) THEN 8
    ELSE IF GE(Credit(p), 620) THEN 6
    ELSE 3

\* mutant: a DTI above 0.43, or none, earns the points of the 0.43 tier
dti_points_no_penalty(a) ==
    IF RatioLE(calculated_dti[a], 28) THEN 10
    ELSE IF RatioLE(calculated_dti[a], 36) THEN 8
    ELSE 5

dti_points(a) ==
    IF RatioLE(calculated_dti[a], 28) THEN 10
    ELSE IF RatioLE(calculated_dti[a], 36) THEN 8
    ELSE IF RatioLE(calculated_dti[a], 43) THEN 5
    ELSE 2

\* mutant: a down payment of 5% earns the 7 points of the 10% tier
down_payment_points_generous(a) ==
    IF GE(DownPayment(a), 200) THEN 10
    ELSE IF GE(DownPayment(a), 50) THEN 7
    ELSE 3

down_payment_points(a) ==
    IF GE(DownPayment(a), 200) THEN 10
    ELSE IF GE(DownPayment(a), 100) THEN 7
    ELSE IF GE(DownPayment(a), 50) THEN 5
    ELSE 3

\* mutant: an absent credit_score contributes no points
risk_score_absent_zero(p, a) ==
    (IF Credit(p) = Null THEN 0 ELSE credit_score_points(p))
    + dti_points(a) + down_payment_points(a)

risk_score(p, a) ==
    credit_score_points(p) + dti_points(a) + down_payment_points(a)

\* mutant: the 25 boundary excluded from LowRisk
RiskCategoryOf_strict(score) ==
    IF score > 25 THEN "LowRisk"
    ELSE IF score >= 18 THEN "MediumRisk"
    ELSE "HighRisk"

\* SET a.risk_category = CASE ... END
RiskCategoryOf(score) ==
    IF score >= 25 THEN "LowRisk"
    ELSE IF score >= 18 /\ score < 25 THEN "MediumRisk"
    ELSE "HighRisk"

\* the three FOREACH ... SET a:<label> clauses
RiskLabelsOf(score) ==
    (IF score >= 25 THEN {"LowRisk"} ELSE {})
    \cup (IF score >= 18 /\ score < 25 THEN {"MediumRisk"} ELSE {})
    \cup (IF score < 18 THEN {"HighRisk"} ELSE {})

\* Every row sets the properties of its application, so the row processed last
\* decides them; the order of the rows of one application is not specified.
\* The labels of all rows accumulate.
risk_scoring ==
    /\ pc = "risk_1"
    /\ LET rows == MatchAppliesFor
           scored == {r[2] : r \in rows}
           applicants(a) == {r[1] : r \in {x \in rows : x[2] = a}}
       IN  /\ \E last \in [scored -> personNodes] :
                /\ \A a \in scored : last[a] \in applicants(a)
                /\ calculated_risk_score' = [a \in Apps |->
                      IF a \in scored THEN Some(risk_score(last[a], a))
                      ELSE calculated_risk_score[a]]
                /\ risk_category' = [a \in Apps |->
                      IF a \in scored
                      THEN Some(RiskCategoryOf(risk_score(last[a], a)))
                      ELSE risk_category[a]]
           /\ appLabels' = [a \in Apps |->
                 appLabels[a] \cup
                 UNION {RiskLabelsOf(risk_score(p, a)) : p \in applicants(a)}]
           /\ risk_writes' = risk_writes \cup
                 {[row |-> r, score |-> risk_score(r[1], r[2]),
                   category |-> RiskCategoryOf(risk_score(r[1], r[2]))] :
                    r \in rows}
    /\ pc' = "risk_2"
    /\ UNCHANGED <<inputs, connection, runs, outcome, otherNodes, atr_compliance, phases, kg_edges,
                   personNodes, appNodes, personLabels, calculated_dti,
                   programs, rules, edges>>

risk_auto_approval ==
    /\ pc = "risk_2"
    /\ LET matched == {a \in appNodes : "LowRisk" \in appLabels[a]}
           made(x) == Edge("ELIGIBLE_FOR", AppRef(x[1]), RuleRef(x[2][1]),
                           [approval_type |-> "automated",
                            created_by |-> "knowledge_graph"])
       IN  edges' = edges (+) Created(
               matched \X MatchRules("UnderwritingRule", "AutoApproval"), made)
    /\ kg_edges' = kg_edges (+) (edges' (-) edges)
    /\ pc' = "risk_3"
    /\ UNCHANGED <<inputs, connection, runs, outcome, otherNodes, atr_compliance, phases,
                   risk_writes, personNodes, appNodes, personLabels, appLabels,
                   calculated_dti, calculated_risk_score, risk_category,
                   programs, rules>>

risk_manual_review ==
    /\ pc = "risk_3"
    /\ LET matched == {a \in appNodes : "HighRisk" \in appLabels[a]}
           made(x) == Edge("REQUIRES", AppRef(x[1]), RuleRef(x[2][1]),
                           [review_type |-> "manual_underwriter",
                            created_by |-> "knowledge_graph"])
       IN  edges' = edges (+) Created(
               matched \X MatchRules("UnderwritingRule", "ManualReview"), made)
    /\ kg_edges' = kg_edges (+) (edges' (-) edges)
    /\ pc' = "doc_1"
    /\ UNCHANGED <<inputs, connection, runs, outcome, otherNodes, atr_compliance, phases,
                   risk_writes, personNodes, appNodes, personLabels, appLabels,
                   calculated_dti, calculated_risk_score, risk_category,
                   programs, rules>>

----------------------------------------------------------------------------
(* phase 5: create_document_requirement_knowledge                          *)

\* MATCH (p:Person)-[:WORKS_AT]->(c:Company): one row <<p, c, k>> per edge
MatchWorksAt ==
    UNION {{<<p, c, k>> : k \in 1..CopiesIn(WorksAt(p, c), edges)} :
            <<p, c>> \in personNodes \X Companies}

\* WHERE c.company_type = "sole_proprietorship" OR p.person_type = "self_employed"
IsSelfEmployed(p, c) ==
    \/ companies[c].company_type = "sole_proprietorship"
    \/ people[p].person_type = "self_employed"

doc_self_employed ==
    /\ pc = "doc_1"
    /\ LET rows == {x \in MatchWorksAt \X MatchAppliesFor :
                       x[1][1] = x[2][1] /\ IsSelfEmployed(x[1][1], x[1][2])}
           made(x) == Edge("REQUIRES_ADDITIONAL", AppRef(x[1][2][2]), RuleRef(x[2][1]),
                           [document_type |-> "tax_returns_2_years",
                            reason |-> "self_employed_verification",
                            created_by |-> "knowledge_graph"])
       IN  /\ personLabels' = AddLabel(personLabels, {x[1][1] : x \in rows},
                                       "SelfEmployed")
           /\ edges' = edges (+) Created(
                  rows \X MatchRules("DocumentVerificationRule",
                                     "SelfEmployedDocumentation"), made)
    /\ kg_edges' = kg_edges (+) (edges' (-) edges)
    /\ pc' = "doc_2"
    /\ UNCHANGED <<inputs, connection, runs, outcome, otherNodes, atr_compliance, phases,
                   risk_writes, personNodes, appNodes, appLabels, calculated_dti,
                   calculated_risk_score, risk_category, programs, rules>>

HIGH_LOAN_AMOUNT == 500000      \* WHERE a.loan_amount > 500000

doc_high_loan_amount ==
    /\ pc = "doc_2"
    /\ LET matched == {a \in appNodes : GT(LoanAmount(a), HIGH_LOAN_AMOUNT)}
           made(x) == Edge("REQUIRES_ENHANCED", AppRef(x[1]), RuleRef(x[2][1]),
                           [verification_level |-> "full_documentation",
                            reason |-> "high_loan_amount",
                            created_by |-> "knowledge_graph"])
       IN  edges' = edges (+) Created(
               matched \X MatchRules("DocumentVerificationRule",
                                     "AssetVerification"), made)
    /\ kg_edges' = kg_edges (+) (edges' (-) edges)
    /\ pc' = "doc_3"
    /\ UNCHANGED <<inputs, connection, runs, outcome, otherNodes, atr_compliance, phases,
                   risk_writes, personNodes, appNodes, personLabels, appLabels,
                   calculated_dti, calculated_risk_score, risk_category,
                   programs, rules>>

doc_credit_explanation ==
    /\ pc = "doc_3"
    /\ LET rows == {r \in MatchAppliesFor : "FairCredit" \in personLabels[r[1]]}
           made(x) == Edge("REQUIRES_EXPLANATION", AppRef(x[1][2]), RuleRef(x[2][1]),
                           [explanation_type |-> "credit_issues",
                            reason |-> "below_optimal_credit",
                            created_by |-> "knowledge_graph"])
       IN  edges' = edges (+) Created(
               rows \X MatchRules("DocumentVerificationRule",
                                  "CreditExplanation"), made)
    /\ kg_edges' = kg_edges (+) (edges' (-) edges)
    /\ pc' = "geo"
    /\ UNCHANGED <<inputs, connection, runs, outcome, otherNodes, atr_compliance, phases,
                   risk_writes, personNodes, appNodes, personLabels, appLabels,
                   calculated_dti, calculated_risk_score, risk_category,
                   programs, rules>>

----------------------------------------------------------------------------
(* phase 6: create_geographic_market_knowledge                             *)

\* Property and Location records are not part of the state, so every
\* application is taken to have its property in a HighValueMarket location:
\* this gives the second query all the rows it can have.  The first query
\* writes Location properties only.
geo_high_value_market ==
    /\ pc = "geo"
    /\ LET made(x) == Edge("CONSIDER_PROGRAM", AppRef(x[1]), ProgramRef(x[2][1]),
                           [reason |-> "high_value_market",
                            market_avg |-> "loc.avg_property_value",
                            created_by |-> "knowledge_graph"])
       IN  edges' = edges (+) Created(appNodes \X MatchPrograms({"Jumbo"}), made)
    /\ kg_edges' = kg_edges (+) (edges' (-) edges)
    /\ pc' = "comp_1"
    /\ UNCHANGED <<inputs, connection, runs, outcome, otherNodes, atr_compliance, phases,
                   risk_writes, personNodes, appNodes, personLabels, appLabels,
                   calculated_dti, calculated_risk_score, risk_category,
                   programs, rules>>

----------------------------------------------------------------------------
(* phase 7: create_compliance_knowledge                                    *)

\* CASE WHEN a.calculated_dti <= 0.43 THEN "compliant" ELSE ... END
atr_status(dti) ==
    IF RatioLE(dti, 43) THEN "compliant" ELSE "requires_qm_exception"

comp_atr ==
    /\ pc = "comp_1"
    /\ LET matched == {a \in appNodes : calculated_dti[a] # Null}
           made(x) == Edge("COMPLIANCE_STATUS", AppRef(x[1]), RuleRef(x[2][1]),
                           [rule_name |-> "ATR",
                            status |-> atr_status(calculated_dti[x[1]]),
                            created_by |-> "knowledge_graph"])
       IN  /\ atr_compliance' = [a \in Apps |->
                 IF a \in matched THEN Some(atr_status(calculated_dti[a]))
                 ELSE atr_compliance[a]]
           /\ edges' = edges (+) Created(
                  matched \X MatchRules("ComplianceRule", "ATR_QualifiedMortgage"),
                  made)
    /\ kg_edges' = kg_edges (+) (edges' (-) edges)
    /\ pc' = "comp_2"
    /\ UNCHANGED <<inputs, connection, runs, outcome, otherNodes, phases,
                   risk_writes, personNodes, appNodes, personLabels, appLabels,
                   calculated_dti, calculated_risk_score, risk_category,
                   programs, rules>>

\* The last query of create_knowledge_graph.  Every application record has an
\* application_date; required_closing_date is read by no other query.
comp_trid ==
    /\ pc = "comp_2"
    /\ LET made(x) == Edge("SUBJECT_TO", AppRef(x[1]), RuleRef(x[2][1]),
                           [rule_name |-> "TRID",
                            deadline |-> "a.required_closing_date",
                            created_by |-> "knowledge_graph"])
       IN  edges' = edges (+) Created(
               appNodes \X MatchRules("ComplianceRule", "TRID_Compliance"), made)
    /\ kg_edges' = kg_edges (+) (edges' (-) edges)
    /\ first_link' = IF links = 1 THEN Some(kg_edges') ELSE first_link
    /\ pc' = IF links = 1 THEN AfterPhase("knowledge_graph", TRUE) ELSE "done"
    /\ UNCHANGED <<inputs, connection, rand, loads, links, first_load, outcome, otherNodes,
                   atr_compliance, phases,
                   risk_writes, personNodes, appNodes, personLabels, appLabels,
                   calculated_dti, calculated_risk_score, risk_category,
                   programs, rules>>

----------------------------------------------------------------------------
(* load_all_data, phase 7: align_schema_for_agents                         *)

\* validate_schema_alignment: every Application has id, borrower_name, status
\* and loan_amount, of which the records can lack loan_amount only; with no
\* Application the percentages divide by zero and the except returns False
SchemaAligned ==
    /\ appNodes # {}
    /\ \A a \in appNodes : LoanAmount(a) # Null

\* the number of nodes of each label: MATCH (n:<label>) RETURN count(n)
NodesPerLabel ==
    [l \in ClearedLabels \cup {n[1] : n \in BagToSet(otherNodes)}
                        \cup {r.label : r \in BagToSet(rules)} |->
        (IF l = "Person" THEN Cardinality(personNodes) ELSE 0)
        + (IF l = "Application" THEN Cardinality(appNodes) ELSE 0)
        + (IF l = "LoanProgram" THEN BagCardinality(programs) ELSE 0)
        + BagCardinality(LET has(r) == r.label = l IN Keep(rules, has))
        + BagCardinality(LET has(n) == n[1] = l IN Keep(otherNodes, has))]

\* the graph at the end of a load: the nodes of each label and the labels,
\* properties and edges the knowledge-graph pass derived
Derived ==
    [nodes |-> NodesPerLabel, edges |-> kg_edges, personLabels |-> personLabels, appLabels |-> appLabels,
     calculated_dti |-> calculated_dti,
     calculated_risk_score |-> calculated_risk_score,
     risk_category |-> risk_category, atr_compliance |-> atr_compliance]

\* The defaults align_application_schema sets (borrower_name, first_name,
\* last_name, property_value, phone, email) are read by no query of the load.
align_schema_for_agents ==
    /\ pc = "align"
    /\ phases' = Append(phases, "alignment")
    /\ result' = IF SchemaAligned THEN "True" ELSE "False"
    /\ failed' = IF SchemaAligned THEN failed ELSE Some("alignment")
    /\ first_load' = IF loads = 1 /\ SchemaAligned THEN Some(Derived) ELSE first_load
    /\ pc' = AfterPhase("alignment", SchemaAligned)
    /\ UNCHANGED <<inputs, connection, rand, loads, links, first_link, errors, otherNodes,
                   atr_compliance, kg_edges,
                   risk_writes, personNodes, appNodes, personLabels, appLabels,
                   calculated_dti, calculated_risk_score, risk_category,
                   programs, rules, edges>>

----------------------------------------------------------------------------
(* Failing queries, a second run of the pass, a second load                *)

database == <<otherNodes, atr_compliance, kg_edges, risk_writes, personNodes, appNodes,
              personLabels, appLabels, calculated_dti, calculated_risk_score,
              risk_category, programs, rules, edges>>

\* the labels of which the state can hold several nodes per record
Recreated == ClearedLabels \ {"Person", "Application", "Company"}

\* clear_all_data logs the exception of a clear query and goes on
clear_query_fails ==
    /\ pc = "clear"
    /\ \E l \in Recreated : DetachDelete(ClearedLabels \ {l})
    /\ risk_writes' = {}
    /\ errors' = errors \cup {pc}
    /\ phases' = Append(phases, "clear")
    /\ pc' = AfterPhase("clear", TRUE)
    /\ UNCHANGED <<inputs, connection, runs, failed, result>>

\* create_reference_data_relationships logs the exception of a query and goes on
reference_relationship_fails ==
    /\ pc = "ref_relationships"
    /\ \E q \in Recommends \cup RecommendedFor :
          edges' = edges (+) ReferenceEdges((Recommends \cup RecommendedFor) \ {q})
    /\ errors' = errors \cup {pc}
    /\ phases' = Append(phases, "relationships")
    /\ pc' = "relationships"
    /\ UNCHANGED <<inputs, connection, runs, failed, result, otherNodes, atr_compliance, kg_edges,
                   risk_writes, personNodes, appNodes, personLabels, appLabels,
                   calculated_dti, calculated_risk_score, risk_category,
                   programs, rules>>

\* create_knowledge_graph_relationships logs the exception and returns: the
\* first query failed, or the second one after the first was run
knowledge_graph_relationship_fails ==
    /\ pc = "kg_relationships"
    /\ edges' \in {edges, edges (+) SubjectToEdges}
    /\ errors' = errors \cup {pc}
    /\ pc' = AfterPhase("relationships", TRUE)
    /\ UNCHANGED <<inputs, connection, runs, failed, result, otherNodes, atr_compliance, kg_edges,
                   phases, risk_writes, personNodes, appNodes, personLabels,
                   appLabels, calculated_dti, calculated_risk_score, risk_category,
                   programs, rules>>

\* the phase each step belongs to
PhaseOf(step) ==
    IF step \in {"clear", "reference", "sample", "rules"} THEN step
    ELSE IF step = "profiles" THEN "reference"
    ELSE IF step \in {"ref_relationships", "relationships", "kg_relationships"}
         THEN "relationships"
    ELSE IF step = "align" THEN "alignment"
    ELSE "knowledge_graph"

\* the steps whose exceptions a try/except logs without reporting failure
Swallowed == {"clear", "ref_relationships", "kg_relationships"}

\* The first query of the step raises: the except of the phase returns False
\* and load_all_data returns False; in a run of create_knowledge_graph of its
\* own, that call returns False.
query_fails ==
    /\ pc \notin Swallowed \cup {"done"}
    /\ errors' = errors \cup {pc}
    /\ IF links = 1
       THEN /\ failed' = Some(PhaseOf(pc))
            /\ result' = "False"
            /\ phases' = IF phases # <<>> /\ phases[Len(phases)] = PhaseOf(pc)
                         THEN phases ELSE Append(phases, PhaseOf(pc))
            /\ pc' = AfterPhase(PhaseOf(pc), FALSE)
       ELSE /\ pc' = "done"
            /\ UNCHANGED <<failed, result, phases>>
    /\ UNCHANGED <<inputs, connection, runs, database>>

SubjectToRows ==
    Apps \X {r.rule_id : r \in {x \in BusinessRules :
                                   x.rule_type \in {Some(t) : t \in SubjectToRuleTypes}}}

\* The outcomes of rand(): works_at is the one <<person, company>> row that
\* "WHERE rand() < 0.8 ... ORDER BY rand() LIMIT 1" lets through, if any;
\* subject_to holds the <<application, rule_id>> rows with "rand() < 0.3".
NoLuck == [works_at |-> Null, subject_to |-> {}]
RandOutcomes ==
    {[works_at |-> w, subject_to |-> s] :
        w \in Opt(Persons \X Companies),
        s \in {x \in SUBSET SubjectToRows : Cardinality(x) <= MaxSubjectTo}}

\* create_knowledge_graph is called again on the loaded graph
create_knowledge_graph_again ==
    /\ pc = "done"
    /\ personNodes # {}
    /\ links < MaxLinks
    /\ links' = links + 1
    /\ pc' = "credit_1"
    /\ UNCHANGED <<inputs, connection, rand, loads, first_link, first_load, outcome, phases,
                   database>>

\* load_all_data is called again on the same files
load_all_data_again ==
    /\ pc = "done"
    /\ loads < MaxLoads
    /\ loads' = loads + 1
    /\ links' = 1
    /\ rand' \in RandOutcomes
    /\ phases' = <<>>
    /\ failed' = Null
    /\ result' = "running"
    /\ errors' = {}
    /\ pc' = "clear"
    /\ UNCHANGED <<inputs, connection, first_link, first_load, database>>

----------------------------------------------------------------------------
(* utils/neo4j_connection.py and setup/initialize_database.py              *)

\* everything load_all_data reads and writes
load_state == <<inputs, runs, outcome, phases, database, pc>>

DEFAULT_URI == "bolt://localhost:7687"
DEFAULT_PASSWORD == "mortgage123"

\* the settings that decide what connect() does: a password, which may be
\* empty, and a URI, which the driver may be unable to parse
Configs == [password : {DEFAULT_PASSWORD, ""}, uri : {DEFAULT_URI, "no uri"}]

\* the server accepts connections, is unreachable, or rejects the credentials
Servers == {"up", "down", "auth_fails"}

\* GraphDatabase.driver(...) returns a driver; it raises on a URI it cannot parse
DriverCreated == config.uri = DEFAULT_URI

\* connect() gets as far as assigning self._driver
DriverAssigned == config.password # "" /\ DriverCreated

\* the value connect() returns: True only after verify_connectivity()
ConnectResult == DriverAssigned /\ server = "up"

\* self._driver after connect(): it is assigned before verify_connectivity(),
\* and no except clause resets it
DriverAfterConnect == IF DriverAssigned THEN "Driver" ELSE driver

\* Neo4jConnection.connect
connect ==
    /\ driver' = DriverAfterConnect
    /\ lifecycle' = IF ConnectResult THEN "connect_true" ELSE "connect_false"
    /\ UNCHANGED <<config, server, last_query, wait, phases_run, load_state>>

\* Neo4jConnection.disconnect
disconnect ==
    /\ lifecycle # "disconnected"
    /\ driver' = "None"
    /\ lifecycle' = "disconnected"
    /\ UNCHANGED <<config, server, last_query, wait, phases_run, load_state>>

\* what session.run does on a driver: the query runs, or the driver raises
SessionRun ==
    IF server = "up" THEN "ran"
    ELSE IF server = "down" THEN "ServiceUnavailable"
    ELSE "AuthError"

\* Neo4jConnection.execute_query
execute_query ==
    /\ last_query' = [outcome |-> IF driver = "None" THEN "RuntimeError"
                                  ELSE SessionRun,
                      after |-> lifecycle]
    /\ UNCHANGED <<config, server, driver, lifecycle, wait, phases_run,
                   load_state>>

\* the server starts, stops or changes its credentials
server_changes ==
    /\ server' \in Servers \ {server}
    /\ UNCHANGED <<config, driver, lifecycle, last_query, wait, phases_run,
                   load_state>>

MaxAttempts == 3    \* max_attempts of wait_for_neo4j (30 by default)
DELAY == 2          \* delay of wait_for_neo4j, in seconds

\* the parameters of initialize_connection
InitializeConnectionParams == {}

NotWaiting ==
    [at |-> "idle", attempt |-> 0, sleeps |-> 0, elapsed |-> 0,
     server_was_up |-> FALSE, returned |-> "none"]

\* initialize_complete_database is called and enters wait_for_neo4j
initialize_complete_database ==
    /\ wait.at = "idle"
    /\ wait' = [wait EXCEPT !.at = "running"]
    /\ UNCHANGED <<config, server, driver, lifecycle, last_query, phases_run,
                   load_state>>

\* One iteration of the loop of wait_for_neo4j.  The try body calls
\* initialize_connection(config=...), which raises TypeError for a keyword
\* the function does not have, then opens a session and runs "RETURN 1";
\* the except clause sleeps unless this was the last attempt, and after the
\* last attempt the function returns False.
wait_for_neo4j ==
    /\ wait.at = "running"
    /\ wait.attempt < MaxAttempts
    /\ LET called == "config" \in InitializeConnectionParams
           tested == called /\ DriverAfterConnect = "Driver" /\ server = "up"
           last == wait.attempt + 1 = MaxAttempts
       IN  /\ driver' = IF called THEN DriverAfterConnect ELSE driver
           /\ lifecycle' = IF ~called THEN lifecycle
                           ELSE IF ConnectResult THEN "connect_true"
                           ELSE "connect_false"
           /\ wait' = [wait EXCEPT
                 !.attempt = @ + 1,
                 !.server_was_up = @ \/ (server = "up" /\ DriverAssigned),
                 !.sleeps = IF tested \/ last THEN @ ELSE @ + 1,
                 !.elapsed = IF tested \/ last THEN @ ELSE @ + DELAY,
                 !.at = IF tested THEN "True"
                        ELSE IF last THEN "False" ELSE "running"]
    /\ UNCHANGED <<config, server, last_query, phases_run, load_state>>

INITIALIZATION_PHASES == 4

\* initialize_complete_database after wait_for_neo4j: return False, or run
\* the phases up to the first that fails
run_phases ==
    /\ wait.at \in {"True", "False"}
    /\ wait.returned = "none"
    /\ IF wait.at = "False"
       THEN /\ phases_run' = 0
            /\ wait' = [wait EXCEPT !.returned = "False"]
       ELSE \E n \in 1..INITIALIZATION_PHASES, ok \in BOOLEAN :
                /\ ok => n = INITIALIZATION_PHASES
                /\ phases_run' = n
                /\ wait' = [wait EXCEPT
                      !.returned = IF ok THEN "True" ELSE "False"]
    /\ UNCHANGED <<config, server, driver, lifecycle, last_query, load_state>>

NoQuery == [outcome |-> "none", after |-> "new"]

\* a new Neo4jConnection and a DatabaseInitializer that has not run
NewConnection ==
    /\ config \in Configs
    /\ server \in Servers
    /\ driver = "None"
    /\ lifecycle = "new"
    /\ last_query = NoQuery
    /\ wait = NotWaiting
    /\ phases_run = 0

\* load_all_data has called initialize_connection() and it returned True
Established ==
    /\ config = [password |-> DEFAULT_PASSWORD, uri |-> DEFAULT_URI]
    /\ server = "up"
    /\ driver = "Driver"
    /\ lifecycle = "connect_true"
    /\ last_query = NoQuery
    /\ wait = NotWaiting
    /\ phases_run = 0

----------------------------------------------------------------------------
(* Initial states                                                          *)

\* the inputs of the loads that are repeated: employment and co-applicants
InitReloadInputs ==
    /\ \/ /\ people \in {<<p>> : p \in EmploymentPeople}
          /\ applications \in {<<a>> : a \in EmploymentApplications}
       \/ /\ people = CoApplicants
          /\ applications = <<SharedApplication>>
    /\ companies \in CompanyFiles
    /\ rand \in RandOutcomes

\* the inputs of the loads in which queries fail
InitFailInputs ==
    /\ \/ /\ people = CoApplicants
          /\ applications = <<SharedApplication>>
          /\ rand = NoLuck
       \/ /\ people = <<Person("001", Some(619), "self_employed", "Alex")>>
          /\ applications \in {<<a>> : a \in FailApplications}
          /\ rand = [works_at |-> Some(<<1, 1>>),
                     subject_to |-> {<<1, "credit/fair">>}]
    /\ companies = <<Company("employer")>>

InitInputs ==
    \/ /\ \E pa \in ScoringInputs \cup JumboInputs \cup VeteranInputs :
             /\ people = <<pa[1]>>
             /\ applications = <<pa[2]>>
       /\ companies = <<>>
       /\ rand = NoLuck
    \/ /\ people \in [1..MaxPersons -> MultiPeople]
       /\ applications \in [1..MaxApps -> MultiApplications]
       /\ companies = <<>>
       /\ rand = NoLuck
    \/ /\ \/ /\ people = BoundaryPeople
             /\ applications = BoundaryApplications
          \/ /\ people = AbsentPeople
             /\ applications = AbsentApplications
       /\ companies = <<>>
       /\ rand = NoLuck
    \/ InitReloadInputs

\* an empty database, before load_all_data runs
EmptyDatabase ==
    /\ otherNodes = EmptyBag
    /\ atr_compliance = NoValue(Apps)
    /\ kg_edges = EmptyBag
    /\ phases = <<>>
    /\ failed = Null
    /\ result = "running"
    /\ errors = {}
    /\ loads = 1
    /\ links = 1
    /\ first_link = Null
    /\ first_load = Null
    /\ personNodes = {}
    /\ appNodes = {}
    /\ personLabels = NoLabels(Persons)
    /\ appLabels = NoLabels(Apps)
    /\ calculated_dti = NoValue(Apps)
    /\ calculated_risk_score = NoValue(Apps)
    /\ risk_category = NoValue(Apps)
    /\ programs = EmptyBag
    /\ rules = EmptyBag
    /\ edges = EmptyBag
    /\ risk_writes = {}
    /\ pc = "clear"

Init == InitInputs /\ EmptyDatabase /\ Established

InitReload == InitReloadInputs /\ EmptyDatabase /\ Established

InitFail == InitFailInputs /\ EmptyDatabase /\ Established

\* no input files and an empty database: the connection alone
InitConnect ==
    /\ people = <<>>
    /\ applications = <<>>
    /\ companies = <<>>
    /\ rand = NoLuck
    /\ EmptyDatabase
    /\ NewConnection

----------------------------------------------------------------------------
Next ==
    \/ clear_all_data
    \/ load_loan_programs
    \/ load_borrower_profiles
    \/ load_sample_data
    \/ load_business_rules
    \/ create_reference_data_relationships
    \/ create_sample_data_relationships
    \/ create_knowledge_graph_relationships
    \/ credit_excellent
    \/ credit_good
    \/ credit_fair
    \/ dti_low
    \/ dti_medium
    \/ dti_high
    \/ match_va
    \/ match_fha
    \/ match_jumbo
    \/ risk_scoring
    \/ risk_auto_approval
    \/ risk_manual_review
    \/ doc_self_employed
    \/ doc_high_loan_amount
    \/ doc_credit_explanation
    \/ geo_high_value_market
    \/ comp_atr
    \/ comp_trid
    \/ align_schema_for_agents

\* one load in which every query succeeds
Spec == Init /\ [][Next]_vars

NextReload ==
    \/ Next
    \/ create_knowledge_graph_again
    \/ load_all_data_again

\* loads and runs of the pass, repeated, in which every query succeeds
SpecReload == InitReload /\ [][NextReload]_vars

NextFail ==
    \/ Next
    \/ clear_query_fails
    \/ reference_relationship_fails
    \/ knowledge_graph_relationship_fails
    \/ query_fails
    \/ create_knowledge_graph_again

\* one load and further runs of the pass, in which any query may fail
SpecFail == InitFail /\ [][NextFail]_vars

NextConnect ==
    \/ connect
    \/ disconnect
    \/ execute_query
    \/ server_changes
    \/ initialize_complete_database
    \/ wait_for_neo4j
    \/ run_phases

\* the calls on a Neo4jConnection and the start-up of initialize_database.py
SpecConnect == InitConnect /\ [][NextConnect]_vars

----------------------------------------------------------------------------
(* Properties                                                              *)

\* the order in which load_all_data and create_knowledge_graph run the steps
Steps ==
    <<"clear", "reference", "profiles", "sample", "rules", "ref_relationships",
      "relationships", "kg_relationships",
      "credit_1", "credit_2", "credit_3", "dti_1", "dti_2", "dti_3",
      "match_1", "match_2", "match_3", "risk_1", "risk_2", "risk_3",
      "doc_1", "doc_2", "doc_3", "geo", "comp_1", "comp_2", "align", "done">>

StepNo(s) == CHOOSE i \in 1..Len(Steps) : Steps[i] = s

\* the step named s has run in this load
Passed(s) == StepNo(pc) > StepNo(s)

HasApplicant(a) == \E r \in MatchAppliesFor : r[2] = a

DtiBands == {"LowRiskDTI", "MediumRiskDTI", "HighRiskDTI"}

\* calculated_dti of a is present and is monthly_debts / monthly_income
DtiIsQuotient(a) ==
    /\ calculated_dti[a] # Null
    /\ calculated_dti[a][2] > 0
    /\ calculated_dti[a][1] * Income(a)[1] = Debts(a)[1] * calculated_dti[a][2]

\* C1, as stated: after the income/debt pass every Application with
\* monthly_income > 0 and monthly_debts >= 0 has calculated_dti equal to
\* monthly_debts / monthly_income.
C1_EveryApplication ==
    Passed("dti_3") =>
        \A a \in appNodes :
            (GT(Income(a), 0) /\ GE(Debts(a), 0)) => DtiIsQuotient(a)

\* C1, amended: after the income/debt pass every Application that some Person
\* applies for, with monthly_income > 0 and monthly_debts >= 0, has
\* calculated_dti equal to monthly_debts / monthly_income.
C1_DtiIsQuotient ==
    Passed("dti_3") =>
        \A a \in appNodes :
            (HasApplicant(a) /\ GT(Income(a), 0) /\ GE(Debts(a), 0))
                => DtiIsQuotient(a)

C1_Witness ==
    /\ Passed("dti_3")
    /\ \E a \in appNodes :
          /\ HasApplicant(a)
          /\ Income(a) = Some(3) /\ Debts(a) = Some(1)
          /\ calculated_dti[a] = <<1, 3>>

\* the band of a present ratio r, as the claim words it
C2_Band(r) ==
    IF r[1] * 100 <= 28 * r[2] THEN "LowRiskDTI"
    ELSE IF r[1] * 100 <= 43 * r[2] THEN "MediumRiskDTI"
    ELSE "HighRiskDTI"

\* C2: after the income/debt pass every Application with a defined
\* calculated_dti carries exactly one DTI band label: LowRiskDTI for
\* dti <= 0.28, MediumRiskDTI for 0.28 < dti <= 0.43, HighRiskDTI above.
C2_OneDtiBand ==
    Passed("dti_3") =>
        \A a \in appNodes :
            calculated_dti[a] # Null =>
                appLabels[a] \cap DtiBands = {C2_Band(calculated_dti[a])}

C2_Witness ==
    /\ Passed("dti_3")
    /\ \E a \in appNodes :
          /\ calculated_dti[a] = <<7, 25>>
          /\ appLabels[a] \cap DtiBands = {"LowRiskDTI"}

\* the three point tables, as the claim words them
C3_CreditPoints(cs) ==
    IF cs # Null /\ cs[1] >= 740 THEN 10
    ELSE IF cs # Null /\ cs[1] >= 680 THEN 8
    ELSE IF cs # Null /\ cs[1] >= 620 THEN 6
    ELSE 3
C3_DtiPoints(r) ==
    IF r # Null /\ r[1] * 100 <= 28 * r[2] THEN 10
    ELSE IF r # Null /\ r[1] * 100 <= 36 * r[2] THEN 8
    ELSE IF r # Null /\ r[1] * 100 <= 43 * r[2] THEN 5
    ELSE 2
C3_DownPaymentPoints(dp) ==
    IF dp # Null /\ dp[1] >= 200 THEN 10
    ELSE IF dp # Null /\ dp[1] >= 100 THEN 7
    ELSE IF dp # Null /\ dp[1] >= 50 THEN 5
    ELSE 3
C3_Score(p, a) ==
    C3_CreditPoints(Credit(p)) + C3_DtiPoints(calculated_dti[a])
        + C3_DownPaymentPoints(DownPayment(a))

\* C3: the score the risk-assessment pass writes for an (applicant,
\* application) pair is credit_points + dti_points + down_payment_points of
\* that pair; every pair is written; the stored score is one of the written
\* ones and lies in 8..30; it is 30 at (740, 0.28, 0.20), 8 at (300, 0.50, 0.0).
C3_RiskScore ==
    /\ \A w \in risk_writes :
          /\ w.score = C3_Score(w.row[1], w.row[2])
          /\ (/\ Credit(w.row[1]) = Some(740)
              /\ calculated_dti[w.row[2]] = <<7, 25>>
              /\ DownPayment(w.row[2]) = Some(200)) => w.score = 30
          /\ (/\ Credit(w.row[1]) = Some(300)
              /\ calculated_dti[w.row[2]] = <<1, 2>>
              /\ DownPayment(w.row[2]) = Some(0)) => w.score = 8
    /\ Passed("risk_1") =>
          /\ \A r \in MatchAppliesFor : \E w \in risk_writes : w.row = r
          /\ \A a \in appNodes :
                HasApplicant(a) =>
                    /\ calculated_risk_score[a] # Null
                    /\ calculated_risk_score[a][1] \in 8..30
                    /\ \E w \in risk_writes :
                          /\ w.row[2] = a
                          /\ w.score = calculated_risk_score[a][1]

C3_Witness ==
    \E w \in risk_writes :
        /\ Credit(w.row[1]) = Some(740)
        /\ calculated_dti[w.row[2]] = <<7, 25>>
        /\ DownPayment(w.row[2]) = Some(200)
        /\ calculated_risk_score[w.row[2]] = Some(30)

\* the category of a score, as the claim words it
C4_Category(score) ==
    IF score >= 25 THEN "LowRisk"
    ELSE IF score >= 18 THEN "MediumRisk"
    ELSE "HighRisk"

\* C4: risk_category is a function of calculated_risk_score: LowRisk for
\* score >= 25, MediumRisk for 18 <= score < 25, HighRisk below 18; so 25 is
\* LowRisk, 24 and 18 are MediumRisk, 17 is HighRisk.
C4_CategoryOfScore ==
    \A a \in Apps :
        /\ (calculated_risk_score[a] = Null) <=> (risk_category[a] = Null)
        /\ calculated_risk_score[a] # Null =>
              /\ risk_category[a] = Some(C4_Category(calculated_risk_score[a][1]))
              /\ calculated_risk_score[a] = Some(25) => risk_category[a] = Some("LowRisk")
              /\ calculated_risk_score[a] = Some(24) => risk_category[a] = Some("MediumRisk")
              /\ calculated_risk_score[a] = Some(18) => risk_category[a] = Some("MediumRisk")
              /\ calculated_risk_score[a] = Some(17) => risk_category[a] = Some("HighRisk")

C4_Witness ==
    \E a \in appNodes :
        calculated_risk_score[a] = Some(25) /\ risk_category[a] = Some("LowRisk")

\* the edges of the income/debt pass that leave application a
DtiEdgesOf(a) ==
    {e \in BagToSet(edges) :
        /\ e.src = AppRef(a)
        /\ e.type \in {"MEETS_CRITERIA", "REQUIRES_REVIEW", "LIKELY_DENIED"}}

\* C5: an Application whose monthly_income is 0 or missing has, after the
\* income/debt pass has completed, no calculated_dti, no DTI band label and no
\* debt_to_income edge.
C5_NoIncomeNoDti ==
    Passed("dti_3") =>
        \A a \in appNodes :
            (Income(a) = Null \/ Income(a) = Some(0)) =>
                /\ calculated_dti[a] = Null
                /\ appLabels[a] \cap DtiBands = {}
                /\ DtiEdgesOf(a) = {}

C5_Witness ==
    /\ pc = "done"
    /\ \E a \in appNodes :
          /\ HasApplicant(a)
          /\ Income(a) = Some(0)
          /\ calculated_dti[a] = Null
          /\ calculated_risk_score[a] # Null

\* the number of edges, parallel ones counted, that satisfy P
EdgeCount(P(_)) == BagCardinality(Keep(edges, P))

\* some edge leads from application a to a rule record of this rule_type
HasEdgeToRule(a, rule_type) ==
    \E e \in BagToSet(edges) :
        /\ e.src = AppRef(a)
        /\ \E r \in BagToSet(rules) :
              RuleRef(r) = e.dst /\ r.rule_type = Some(rule_type)

\* the LoanProgram record of the Jumbo program, however its name is cased
IsJumboProgram(ref) == ref \in {ProgramRef("Jumbo"), ProgramRef("JUMBO")}

\* an edge of the Jumbo qualification rule from person p
IsJumboEdge(e, p) ==
    /\ e.type = "QUALIFIES_FOR"
    /\ e.src = PersonRef(p)
    /\ IsJumboProgram(e.dst)
    /\ "priority" \in DOMAIN e.props

Applications(p) == {r \in MatchAppliesFor : r[1] = p}

\* C6, as stated: credit_score 750, monthly_income 10000, monthly_debts 2000,
\* down_payment_percentage 0.25, loan_amount 400000 yield after a reload
\* calculated_dti 0.20, calculated_risk_score 30, risk_category LowRisk, an
\* edge from the application to an AutoApproval rule record and no Jumbo edge.
C6_EndToEnd ==
    pc = "done" =>
        \A r \in MatchAppliesFor :
            LET p == r[1]
                a == r[2]
                jumbo(e) == IsJumboEdge(e, p)
            IN  (/\ Credit(p) = Some(750)
                 /\ Income(a) = Some(10000) /\ Debts(a) = Some(2000)
                 /\ DownPayment(a) = Some(250)
                 /\ LoanAmount(a) = Some(400000)) =>
                    /\ calculated_dti[a] = <<1, 5>>
                    /\ calculated_risk_score[a] = Some(30)
                    /\ risk_category[a] = Some("LowRisk")
                    /\ HasEdgeToRule(a, "AutoApproval")
                    /\ EdgeCount(jumbo) = 0

\* the condition of the Jumbo qualification rule, as the claim words it
C7_Qualifies(p, a) ==
    /\ LoanAmount(a) # Null /\ LoanAmount(a)[1] > 766550
    /\ Credit(p) # Null /\ Credit(p)[1] >= 700
    /\ DownPayment(a) # Null /\ DownPayment(a)[1] >= 200
    /\ calculated_dti[a] # Null
    /\ calculated_dti[a][1] * 100 <= 38 * calculated_dti[a][2]

\* C7, as stated: the Jumbo qualification rule creates a QUALIFIES_FOR edge of
\* priority medium that carries the application's loan_amount, from an
\* applicant to the Jumbo program, exactly when loan_amount > 766550 and
\* credit_score >= 700 and down_payment_percentage >= 0.20 and
\* calculated_dti <= 0.38.
C7_JumboQualification ==
    Passed("match_3") =>
        \A p \in personNodes :
            LET mine(e) == IsJumboEdge(e, p)
            IN  /\ EdgeCount(mine) =
                      Cardinality({r \in Applications(p) : C7_Qualifies(p, r[2])})
                /\ \A r \in Applications(p) :
                      C7_Qualifies(p, r[2]) =>
                          \E e \in BagToSet(edges) :
                              /\ mine(e)
                              /\ e.props.priority = "medium"
                              /\ e.props.loan_amount = LoanAmount(r[2])[1]

\* the condition of the FHA recommendation rule, as the claim words it
C8_Profile(p, a) ==
    /\ DownPayment(a) # Null /\ DownPayment(a)[1] <= 50
    /\ Credit(p) # Null /\ Credit(p)[1] >= 580 /\ Credit(p)[1] <= 680
    /\ calculated_dti[a] # Null
    /\ calculated_dti[a][1] * 100 <= 57 * calculated_dti[a][2]

IsFhaEdge(e, p) ==
    /\ e.type = "RECOMMENDED_FOR"
    /\ e.src = PersonRef(p)
    /\ e.dst = ProgramRef("FHA")

\* C8: the FHA recommendation rule creates a RECOMMENDED_FOR edge of priority
\* high from an applicant to the FHA program exactly when
\* down_payment_percentage <= 0.05 and 580 <= credit_score <= 680 and
\* calculated_dti <= 0.57: one edge per qualifying application of the
\* applicant, none for an undefined DTI or an absent credit score.
C8_FhaRecommendation ==
    Passed("match_2") =>
        \A p \in personNodes :
            LET mine(e) == IsFhaEdge(e, p)
            IN  /\ EdgeCount(mine) =
                      Cardinality({r \in Applications(p) : C8_Profile(p, r[2])})
                /\ \A e \in BagToSet(edges) :
                      mine(e) => e.props.priority = "high"

C8_Witness ==
    /\ Passed("match_2")
    /\ \E r \in MatchAppliesFor :
          LET mine(e) == IsFhaEdge(e, r[1])
          IN  /\ Credit(r[1]) = Some(680)
              /\ DownPayment(r[2]) = Some(50)
              /\ calculated_dti[r[2]] = <<57, 100>>
              /\ EdgeCount(mine) = 1

\* the veteran/military indicator of a person
C9_Indicator(p) ==
    \/ people[p].person_type = "veteran"
    \/ people[p].first_name = "Military Mike"

IsVaEdge(e, p) ==
    /\ e.type = "RECOMMENDED_FOR"
    /\ e.src = PersonRef(p)
    /\ e.dst = ProgramRef("VA")

\* edge e carries down_payment_savings = 0.20 * loan
SavesFifth(e, loan) ==
    /\ "down_payment_savings" \in DOMAIN e.props
    /\ e.props.down_payment_savings[1] * 100
          = 20 * loan * e.props.down_payment_savings[2]

\* C9: the VA recommendation rule creates, for every (applicant, application)
\* pair whose applicant has the veteran/military indicator, one
\* RECOMMENDED_FOR edge to the VA program with priority highest and
\* down_payment_savings = 0.20 * that application's loan_amount, whatever the
\* credit score, DTI and down payment; other applicants get none.
C9_VaRecommendation ==
    Passed("match_1") =>
        \A p \in personNodes :
            LET mine(e) == IsVaEdge(e, p)
            IN  /\ EdgeCount(mine) =
                      IF C9_Indicator(p) THEN Cardinality(Applications(p)) ELSE 0
                /\ \A e \in BagToSet(edges) :
                      mine(e) => e.props.priority = "highest"
                /\ C9_Indicator(p) =>
                      \A r \in Applications(p) :
                          LoanAmount(r[2]) # Null =>
                              LET saved(e) ==
                                      mine(e) /\ SavesFifth(e, LoanAmount(r[2])[1])
                              IN  EdgeCount(saved) =
                                      Cardinality({x \in Applications(p) :
                                          LoanAmount(x[2]) = LoanAmount(r[2])})

C9_Witness ==
    /\ Passed("match_1")
    /\ \E p \in personNodes :
          LET mine(e) == IsVaEdge(e, p)
          IN  /\ C9_Indicator(p)
              /\ Credit(p) = Some(620)
              /\ {LoanAmount(r[2]) : r \in Applications(p)}
                    = {Some(400000), Some(900000)}
              /\ EdgeCount(mine) = 2

\* C10, as stated: after a reload every LowRisk application has an edge to an
\* AutoApproval rule record and every HighRisk application has an edge to a
\* ManualReview rule record.
C10_RiskRouting ==
    pc = "done" =>
        \A a \in appNodes :
            /\ risk_category[a] = Some("LowRisk") => HasEdgeToRule(a, "AutoApproval")
            /\ risk_category[a] = Some("HighRisk") => HasEdgeToRule(a, "ManualReview")

----------------------------------------------------------------------------
(* C11: routing of MediumRisk applications                                  *)

\* application a has a routing edge of both kinds
C11_BothRoutes(a) ==
    HasEdgeToRule(a, "AutoApproval") /\ HasEdgeToRule(a, "ManualReview")

\* application a is MediumRisk, by its risk_category or by its label
C11_MediumRisk(a) ==
    risk_category[a] = Some("MediumRisk") \/ "MediumRisk" \in appLabels[a]

----------------------------------------------------------------------------
(* C12: Ability-to-Repay tagging                                            *)

\* atr_compliance of application a is what its calculated_dti asks for
C12_Tagged(a) ==
    IF calculated_dti[a] = Null THEN atr_compliance[a] = Null
    ELSE IF RatioLE(calculated_dti[a], 43)
         THEN atr_compliance[a] = Some("compliant")
         ELSE atr_compliance[a] = Some("requires_qm_exception")

\* the COMPLIANCE_STATUS edges that leave application a
C12_StatusEdges(a) ==
    {e \in BagToSet(edges) :
        e.type = "COMPLIANCE_STATUS" /\ e.src = AppRef(a)}

\* the tagging alone: after the compliance pass every application with a
\* calculated_dti is tagged by the 0.43 threshold, and no other is tagged
C12_Tagging ==
    Passed("comp_1") => \A a \in appNodes : C12_Tagged(a)

\* C12: after the compliance pass every application with a defined
\* calculated_dti, and no other, has atr_compliance "compliant" (dti <= 0.43)
\* or "requires_qm_exception" (dti > 0.43) and a COMPLIANCE_STATUS edge to a
\* ComplianceRule record that carries the same status
C12_AtrCompliance ==
    Passed("comp_1") =>
        \A a \in appNodes :
            /\ C12_Tagged(a)
            /\ calculated_dti[a] = Null => C12_StatusEdges(a) = {}
            /\ calculated_dti[a] # Null =>
                  /\ C12_StatusEdges(a) # {}
                  /\ \A e \in C12_StatusEdges(a) :
                        /\ Some(e.props.status) = atr_compliance[a]
                        /\ \E r \in BagToSet(rules) :
                              r.label = "ComplianceRule" /\ RuleRef(r) = e.dst

----------------------------------------------------------------------------
(* C13: provenance of the inference edges                                   *)

\* edge e carries created_by = "knowledge_graph"
C13_Marked(e) ==
    /\ "created_by" \in DOMAIN e.props
    /\ e.props.created_by = "knowledge_graph"

\* the edges that the reference, sample-data and business-rule relationship
\* loaders created
C13_DataEntered == edges (-) kg_edges

\* C13: in every reachable state every edge created by the knowledge-graph
\* pass carries created_by = "knowledge_graph" and no edge created by the
\* reference, sample-data or business-rule relationship loaders carries it
C13_Provenance ==
    /\ \A e \in BagToSet(kg_edges) : C13_Marked(e)
    /\ \A e \in BagToSet(C13_DataEntered) : ~C13_Marked(e)

\* the pass has run and the graph holds inference edges next to edges of each
\* of the three other loaders
C13_Witness ==
    /\ pc = "done"
    /\ kg_edges # EmptyBag
    /\ \A t \in {"RECOMMENDS", "APPLIES_FOR", "WORKS_AT", "SUBJECT_TO"} :
          \E e \in BagToSet(C13_DataEntered) : e.type = t

----------------------------------------------------------------------------
(* C14: reason code and level of the inference edges                        *)

C14_Levels == {"highest", "high", "medium", "low"}

\* edge e carries a priority or a confidence, and it is one of the four levels
C14_HasLevel(e) ==
    \/ "priority" \in DOMAIN e.props /\ e.props.priority \in C14_Levels
    \/ "confidence" \in DOMAIN e.props /\ e.props.confidence \in C14_Levels

----------------------------------------------------------------------------
(* C15: the pass run again without clearing                                 *)

\* run number links of the pass has finished in the current load
C15_RunFinished == pc = "done" /\ first_link # Null

\* C15: when the knowledge-graph pass has run twice on the same records
\* without a clear in between, the graph holds exactly twice the inference
\* edges of the single run: every edge of the first run is there twice
C15_TwiceTheEdges ==
    C15_RunFinished =>
        /\ BagCardinality(kg_edges) = links * BagCardinality(first_link[1])
        /\ BagToSet(kg_edges) = BagToSet(first_link[1])
        /\ \A e \in BagToSet(kg_edges) :
              CopiesIn(e, kg_edges) = links * CopiesIn(e, first_link[1])

\* the second run has finished and the first run had created edges
C15_Witness ==
    /\ C15_RunFinished
    /\ links = 2
    /\ first_link[1] # EmptyBag

----------------------------------------------------------------------------
(* C16: load, clear, load again                                             *)

\* a later load of the same files has finished, as the first one had, and the
\* pass has run once in it
C16_Reloaded ==
    /\ pc = "done"
    /\ loads > 1
    /\ links = 1
    /\ result = "True"
    /\ first_load # Null

\* the inference edges alone: the later load holds the edges of the first load
C16_SameEdges ==
    C16_Reloaded => kg_edges = first_load[1].edges

\* C16: after classify and link, a clear, and classify and link again on the
\* same input records, the inference edges, the derived properties and the
\* labels are those of the first run, and nothing of the first run is left over
C16_IdempotentUnderClear ==
    C16_Reloaded => Derived = first_load[1]

----------------------------------------------------------------------------
(* C17: the phases of load_all_data                                         *)

\* the phases started so far are the first phases of the fixed order
C17_InOrder ==
    /\ Len(phases) <= Len(PhaseOrder)
    /\ \A i \in DOMAIN phases : phases[i] = PhaseOrder[i]

\* C17: load_all_data starts its phases in the order clear, reference data,
\* sample data, business rules, basic relationships, knowledge graph, schema
\* alignment; once a phase has reported failure no later phase is started and
\* the result is False; the result is True only when all seven phases ran
\* and none reported failure
C17_PhasesFailFast ==
    /\ C17_InOrder
    /\ failed # Null =>
          /\ result = "False"
          /\ phases # <<>>
          /\ phases[Len(phases)] = failed[1]
    /\ result = "False" => failed # Null
    /\ result = "True" => phases = PhaseOrder /\ failed = Null

\* the business-rule phase has reported failure and load_all_data has returned
C17_Witness ==
    /\ pc = "done"
    /\ links = 1
    /\ failed = Some("rules")
    /\ phases = <<"clear", "reference", "sample", "rules">>
    /\ result = "False"

----------------------------------------------------------------------------
(* C18: a query that fails                                                  *)

\* C18: when a query has failed in any phase of a load, the clear phase and
\* the relationship phase included, load_all_data returns False: a load never
\* returns True after a failed query
C18_FailurePropagated ==
    (pc = "done" /\ links = 1 /\ errors # {}) => result = "False"

\* the part that holds: a failed query outside clear_all_data,
\* create_reference_data_relationships and create_knowledge_graph_relationships
\* ends the load with False
C18_RaisedFailures ==
    (pc = "done" /\ links = 1 /\ errors \ Swallowed # {}) => result = "False"

----------------------------------------------------------------------------
(* C19: lookups that match no record                                        *)

\* the rule records the inference rules look up, by label and rule_type
C19_RuleLookups ==
    {<<"BusinessRule", "DebtToIncomeCalculation">>,
     <<"UnderwritingRule", "AutoApproval">>,
     <<"UnderwritingRule", "ManualReview">>,
     <<"DocumentVerificationRule", "SelfEmployedDocumentation">>,
     <<"DocumentVerificationRule", "AssetVerification">>,
     <<"DocumentVerificationRule", "CreditExplanation">>,
     <<"ComplianceRule", "ATR_QualifiedMortgage">>,
     <<"ComplianceRule", "TRID_Compliance">>}

\* the lookups of rule records that no record in the graph matches
C19_MissingRules ==
    {m \in C19_RuleLookups :
        \A r \in BagToSet(rules) :
            ~(r.label = m[1] /\ r.rule_type = Some(m[2]))}

\* the program names looked up that no LoanProgram record has
C19_MissingPrograms ==
    {"FHA", "VA", "Conventional", "Jumbo"} \ BagToSet(programs)

C19_RiskLabels == {"LowRisk", "MediumRisk", "HighRisk"}

\* C19: when no LoanProgram or rule record matches what an inference rule
\* looks up, the rule creates no edge and raises no error, the remaining rules
\* and phases run, and calculated_dti, the DTI band label, atr_compliance and
\* the risk label are written all the same
C19_MissingRecordSkipped ==
    pc = "done" =>
        /\ errors = {}
        /\ phases = PhaseOrder
        /\ \A e \in BagToSet(kg_edges) :
              /\ \A m \in C19_MissingRules : e.dst[1] # m[1]
              /\ \A name \in C19_MissingPrograms : e.dst # ProgramRef(name)
        /\ \A a \in appNodes :
              /\ (HasApplicant(a) /\ HasDti(a)) =>
                    /\ calculated_dti[a] # Null
                    /\ appLabels[a] \cap DtiBands # {}
                    /\ atr_compliance[a] # Null
              /\ HasApplicant(a) => appLabels[a] \cap C19_RiskLabels # {}

\* the load has ended; the DTI, routing and compliance lookups matched no
\* record, and an application carries what their queries derive
C19_Witness ==
    /\ pc = "done"
    /\ C19_MissingRules = C19_RuleLookups
    /\ C19_MissingPrograms = {"Conventional", "Jumbo"}
    /\ \E a \in appNodes :
          /\ calculated_dti[a] # Null
          /\ "LowRiskDTI" \in appLabels[a]
          /\ atr_compliance[a] = Some("compliant")
          /\ "LowRisk" \in appLabels[a]

----------------------------------------------------------------------------
(* C20: the program names the queries look up                               *)

\* the reference-data phase of the load has run
C20_ReferenceLoaded == Passed("profiles")

\* the names that do resolve: FHA, VA and USDA find one record each
C20_GovernmentPrograms ==
    C20_ReferenceLoaded =>
        \A name \in {"FHA", "VA", "USDA"} :
            Cardinality(MatchPrograms({name})) = 1

\* C20: after the reference-data phase the exact-match lookup of a LoanProgram
\* by each of the names FHA, VA, USDA, Conventional and Jumbo finds exactly
\* one record
C20_ProgramNamesResolve ==
    C20_ReferenceLoaded =>
        \A name \in {"FHA", "VA", "USDA", "Conventional", "Jumbo"} :
            Cardinality(MatchPrograms({name})) = 1

----------------------------------------------------------------------------
(* C21: the credit labels                                                   *)

C21_CreditLabels == {"ExcellentCredit", "GoodCredit", "FairCredit"}

C21_CreditReasons ==
    {"excellent_credit", "good_credit", "fair_credit_needs_review"}

\* the credit label the claim gives a credit_score, if any
C21_LabelsOf(cs) ==
    IF cs = Null THEN {}
    ELSE IF cs[1] >= 740 THEN {"ExcellentCredit"}
    ELSE IF cs[1] >= 620 /\ cs[1] <= 739 THEN {"GoodCredit"}
    ELSE IF cs[1] >= 580 /\ cs[1] <= 619 THEN {"FairCredit"}
    ELSE {}

\* the credit-based QUALIFIES_FOR edges that leave person p
C21_CreditEdges(p) ==
    {e \in BagToSet(edges) :
        /\ e.type = "QUALIFIES_FOR"
        /\ e.src = PersonRef(p)
        /\ "reason" \in DOMAIN e.props
        /\ e.props.reason \in C21_CreditReasons}

\* C21: after the credit-score pass each Person has at most one of the labels
\* ExcellentCredit (score >= 740), GoodCredit (620..739), FairCredit
\* (580..619), the one of its score; a Person whose credit_score is absent or
\* below 580 has no credit label and no credit-based QUALIFIES_FOR edge, and
\* the pass runs to its end on an absent score
C21_OneCreditLabel ==
    Passed("credit_3") =>
        /\ errors = {}
        /\ \A p \in personNodes :
              /\ Cardinality(personLabels[p] \cap C21_CreditLabels) <= 1
              /\ personLabels[p] \cap C21_CreditLabels = C21_LabelsOf(Credit(p))
              /\ C21_LabelsOf(Credit(p)) = {} => C21_CreditEdges(p) = {}

\* the pass has run over a Person without credit_score, who got nothing
C21_Witness ==
    /\ Passed("credit_3")
    /\ \E p \in personNodes :
          /\ Credit(p) = Null
          /\ personLabels[p] \cap C21_CreditLabels = {}
          /\ C21_CreditEdges(p) = {}

----------------------------------------------------------------------------
(* C22: classify, then link                                                 *)

C22_EligibilityTypes == {"QUALIFIES_FOR", "RECOMMENDED_FOR", "ELIGIBLE_FOR"}

\* the pass has created an eligibility edge
C22_Linked ==
    \E e \in BagToSet(kg_edges) : e.type \in C22_EligibilityTypes

\* application a is classified: its DTI, where it has one, its risk score and
\* its risk category are written
C22_Classified(a) ==
    /\ HasDti(a) => calculated_dti[a] # Null
    /\ calculated_risk_score[a] # Null
    /\ risk_category[a] # Null

\* C22: in a load the classification of all applications (calculated_dti,
\* risk score, risk category) is complete before the first eligibility edge
\* is created: whenever such an edge exists every application somebody
\* applies for is classified
C22_ClassifyThenLink ==
    C22_Linked => \A a \in appNodes : HasApplicant(a) => C22_Classified(a)

\* the order that holds from the end of the risk query on
C22_ClassifiedAtEnd ==
    Passed("risk_1") => \A a \in appNodes : HasApplicant(a) => C22_Classified(a)

----------------------------------------------------------------------------
(* C23: derived fields written once, one risk label                         *)

\* the rows of the risk query that wrote the score and category of a
C23_Writes(a) == {w \in risk_writes : w.row[2] = a}

\* a's fields were written once and its one risk label is its risk_category
C23_WrittenOnce(a) ==
    /\ Cardinality(C23_Writes(a)) = 1
    /\ risk_category[a] # Null
    /\ appLabels[a] \cap C19_RiskLabels = {risk_category[a][1]}

\* the applicants of application a
C23_Applicants(a) == {r[1] : r \in {x \in MatchAppliesFor : x[2] = a}}

\* C23: in one load cycle the derived fields of each Application are written
\* exactly once, and afterwards the application carries exactly one of the
\* labels LowRisk, MediumRisk, HighRisk, the one equal to its risk_category,
\* whatever the number of applicants linked to it
C23_ClassifiedOnce ==
    (Passed("risk_1") /\ links = 1) =>
        \A a \in appNodes : HasApplicant(a) => C23_WrittenOnce(a)

\* the part that holds: applications with a single applicant
C23_SingleApplicant ==
    (Passed("risk_1") /\ links = 1) =>
        \A a \in appNodes :
            Cardinality(C23_Applicants(a)) = 1 => C23_WrittenOnce(a)

----------------------------------------------------------------------------
(* C24: the polling of wait_for_neo4j                                       *)

\* the part that holds: at most max_attempts attempts, a sleep of the fixed
\* delay between two attempts and none after the last, False only after
\* max_attempts attempts, and no phase run after False
C24_BoundedPolling ==
    /\ wait.attempt <= MaxAttempts
    /\ wait.elapsed = DELAY * wait.sleeps
    /\ wait.at = "running" => wait.sleeps = wait.attempt
    /\ wait.at = "False" =>
          wait.attempt = MaxAttempts /\ wait.sleeps = MaxAttempts - 1
    /\ (wait.at = "False" /\ wait.returned # "none") =>
          wait.returned = "False" /\ phases_run = 0

\* C24: wait_for_neo4j ends after at most max_attempts attempts with the fixed
\* delay between them; it returns True as soon as an attempt finds the server
\* up, so it returns False only after max_attempts attempts none of which
\* could connect; initialize_complete_database runs no phase after False
C24_WaitForNeo4j ==
    /\ C24_BoundedPolling
    /\ wait.at = "False" => ~wait.server_was_up
    /\ (wait.at = "running" /\ wait.attempt > 0) => ~wait.server_was_up

----------------------------------------------------------------------------
(* C25: execute_query on a connection that is not established               *)

\* the part that holds: RuntimeError before any connect() and after
\* disconnect(), and none after a connect() that returned True
C25_NeverConnectedOrClosed ==
    /\ last_query.after \in {"new", "disconnected"} =>
          last_query.outcome \in {"none", "RuntimeError"}
    /\ last_query.after = "connect_true" => last_query.outcome # "RuntimeError"

\* C25: execute_query raises RuntimeError whenever the connection is not
\* established, that is before any connect(), after a connect() that returned
\* False and after disconnect(); it runs the query only after a connect()
\* that returned True
C25_RuntimeErrorUnlessConnected ==
    /\ C25_NeverConnectedOrClosed
    /\ last_query.after = "connect_false" => last_query.outcome = "RuntimeError"
    /\ last_query.outcome = "ran" => last_query.after = "connect_true"

----------------------------------------------------------------------------
(* C26: derived values are written before they are read                     *)

\* the steps about to run a query that reads calculated_dti, and those that
\* read the LowRisk / HighRisk labels
C26_DtiReaders == {"dti_2", "dti_3", "match_2", "match_3", "risk_1", "comp_1"}
C26_RiskLabelReaders == {"risk_2", "risk_3"}

\* the steps of create_knowledge_graph
C26_PassSteps ==
    {Steps[i] : i \in StepNo("credit_1")..StepNo("comp_2")}

\* C26: inside create_knowledge_graph every derived value is written before
\* it is read: calculated_dti before the loan-matching, risk and compliance
\* queries, the FairCredit label before the document query that matches it,
\* the risk labels before the routing queries; and the APPLIES_FOR edges exist
\* before any of these passes runs
C26_WrittenBeforeRead ==
    /\ pc \in C26_DtiReaders =>
          \A a \in appNodes :
              (HasApplicant(a) /\ HasDti(a)) => calculated_dti[a] = dti_ratio(a)
    /\ pc = "doc_3" =>
          \A p \in personNodes :
              IsFairCredit(p) => "FairCredit" \in personLabels[p]
    /\ pc \in C26_RiskLabelReaders =>
          \A a \in appNodes :
              HasApplicant(a) =>
                  /\ risk_category[a] # Null
                  /\ risk_category[a][1] \in appLabels[a]
    /\ pc \in C26_PassSteps =>
          \A p \in personNodes, a \in appNodes :
              IdsMatch(p, a) => BagIn(AppliesFor(p, a), edges)

\* the document query is about to read the FairCredit label of an applicant
\* whose application has its calculated_dti and its risk label
C26_Witness ==
    /\ pc = "doc_3"
    /\ \E r \in MatchAppliesFor :
          /\ "FairCredit" \in personLabels[r[1]]
          /\ calculated_dti[r[2]] # Null
          /\ appLabels[r[2]] \cap C19_RiskLabels # {}

----------------------------------------------------------------------------
(* C27: LowRisk applications and their DTI                                  *)

\* application a is categorised LowRisk, by property or by label
C27_LowRisk(a) ==
    risk_category[a] = Some("LowRisk") \/ "LowRisk" \in appLabels[a]

\* C27: in every reachable state an application categorised LowRisk has a
\* defined calculated_dti that is <= 0.43: it is not labelled HighRiskDTI,
\* its atr_compliance is not "requires_qm_exception", its DTI is not undefined
C27_LowRiskHasLowDti ==
    \A a \in appNodes :
        C27_LowRisk(a) =>
            /\ calculated_dti[a] # Null
            /\ RatioLE(calculated_dti[a], 43)
            /\ "HighRiskDTI" \notin appLabels[a]
            /\ atr_compliance[a] # Some("requires_qm_exception")

\* the load has ended with a LowRisk application whose DTI is exactly 0.43
C27_Witness ==
    /\ pc = "done"
    /\ \E a \in appNodes :
          /\ risk_category[a] = Some("LowRisk")
          /\ "LowRisk" \in appLabels[a]
          /\ calculated_dti[a] = <<43, 100>>
          /\ atr_compliance[a] = Some("compliant")

----------------------------------------------------------------------------
(* C28: eligibility rules against the risk category                        *)

\* person p is the only applicant of application a
C28_OnlyApplicant(p, a) ==
    {r[1] : r \in {x \in MatchAppliesFor : x[2] = a}} = {p}

C28_HighRisk(a) ==
    \/ risk_category[a] = Some("HighRisk")
    \/ "HighRisk" \in appLabels[a]
    \/ HasEdgeToRule(a, "ManualReview")

C28_LowRiskRouted(a) ==
    \/ risk_category[a] = Some("LowRisk")
    \/ "LowRisk" \in appLabels[a]
    \/ HasEdgeToRule(a, "AutoApproval")

\* C28: for an application with a single applicant, a pair that satisfies the
\* Jumbo qualification rule is never HighRisk nor routed to ManualReview, and
\* a pair that satisfies the FHA recommendation rule is never LowRisk nor
\* routed to AutoApproval
C28_RulesAgreeWithRisk ==
    \A p \in personNodes, a \in appNodes :
        C28_OnlyApplicant(p, a) =>
            /\ JumboQualified(p, a) => ~C28_HighRisk(a)
            /\ FhaProfile(p, a) => ~C28_LowRiskRouted(a)

\* the load has ended with a single-applicant pair on the thresholds of the
\* Jumbo rule and one on the thresholds of the FHA rule, both scored 23
C28_Witness ==
    /\ pc = "done"
    /\ \E p1 \in personNodes, a1 \in appNodes :
          /\ C28_OnlyApplicant(p1, a1)
          /\ JumboQualified(p1, a1)
          /\ calculated_risk_score[a1] = Some(23)
          /\ risk_category[a1] = Some("MediumRisk")
    /\ \E p2 \in personNodes, a2 \in appNodes :
          /\ C28_OnlyApplicant(p2, a2)
          /\ FhaProfile(p2, a2)
          /\ calculated_risk_score[a2] = Some(23)
          /\ risk_category[a2] = Some("MediumRisk")

----------------------------------------------------------------------------
(* C29: the risk-assessment pass is total over applicant-linked applications *)

\* the points of the pair <<p, a>>, an absent input taking its "else" tier
C29_Points(p, a) ==
    (IF Credit(p) = Null THEN 3 ELSE credit_score_points(p))
    + (IF calculated_dti[a] = Null THEN 2 ELSE dti_points(a))
    + (IF DownPayment(a) = Null THEN 3 ELSE down_payment_points(a))

C29_Scored(a) ==
    /\ calculated_risk_score[a] # Null
    /\ risk_category[a] # Null
    /\ \E r \in MatchAppliesFor :
          /\ r[2] = a
          /\ calculated_risk_score[a] = Some(C29_Points(r[1], a))

C29_Unscored(a) ==
    /\ calculated_risk_score[a] = Null
    /\ risk_category[a] = Null
    /\ appLabels[a] \cap C19_RiskLabels = {}

\* C29: after the risk-assessment pass every Application reached by an
\* APPLIES_FOR edge has a calculated_risk_score and a risk_category, the score
\* being the points of one of its applicants with 3, 2 and 3 points for an
\* absent credit_score, calculated_dti and down_payment_percentage; an
\* Application with no applicant has neither
C29_TotalOverLinked ==
    \A a \in appNodes :
        /\ (Passed("risk_1") /\ HasApplicant(a)) => C29_Scored(a)
        /\ ~HasApplicant(a) => C29_Unscored(a)

\* the load has ended with an application scored 3 + 2 + 3 for three absent
\* inputs and an application without applicant that has no score
C29_Witness ==
    /\ pc = "done"
    /\ \E r \in MatchAppliesFor :
          /\ Credit(r[1]) = Null
          /\ calculated_dti[r[2]] = Null
          /\ DownPayment(r[2]) = Null
          /\ calculated_risk_score[r[2]] = Some(8)
          /\ risk_category[r[2]] = Some("HighRisk")
    /\ \E a \in appNodes : ~HasApplicant(a) /\ C29_Unscored(a)

----------------------------------------------------------------------------
(* C30: clear_all_data deletes every label the loaders create               *)

\* the labels of the nodes in the database
C30_CreatedLabels ==
    {n[1] : n \in BagToSet(otherNodes)} \cup {r.label : r \in BagToSet(rules)}
    \cup (IF personNodes = {} THEN {} ELSE {"Person"})
    \cup (IF appNodes = {} THEN {} ELSE {"Application"})
    \cup (IF programs = EmptyBag THEN {} ELSE {"LoanProgram"})

\* no node, no edge, no derived label or property
C30_Empty ==
    /\ \A l \in DOMAIN NodesPerLabel : NodesPerLabel[l] = 0
    /\ edges = EmptyBag /\ kg_edges = EmptyBag
    /\ \A p \in Persons : personLabels[p] = {}
    /\ \A a \in Apps :
          /\ appLabels[a] = {}
          /\ calculated_dti[a] = Null /\ calculated_risk_score[a] = Null
          /\ risk_category[a] = Null /\ atr_compliance[a] = Null

\* C30: every label of a node the loaders of load_all_data create is deleted
\* by clear_all_data; after a clear phase whose queries all succeed no node,
\* derived label or edge of an earlier load remains, and a second successful
\* load ends with the same number of nodes of each label as the first
C30_ClearCoversLoaders ==
    /\ C30_CreatedLabels \subseteq ClearedLabels
    /\ (pc = FirstStep["reference"] /\ "clear" \notin errors) => C30_Empty
    /\ (pc = "done" /\ result = "True" /\ loads = 2 /\ first_load # Null) =>
          NodesPerLabel = first_load[1].nodes

\* a second load has ended on a database that held the nodes of every loader,
\* with one node per label that stands for its records and the five programs
C30_Witness ==
    /\ pc = "done" /\ result = "True" /\ loads = 2 /\ first_load # Null
    /\ RequirementLabels \cup SampleLabels \cup OtherRuleLabels
          \subseteq C30_CreatedLabels
    /\ \A l \in RequirementLabels \cup SampleLabels \cup OtherRuleLabels :
          NodesPerLabel[l] = 1
    /\ NodesPerLabel["LoanProgram"] = 5
    /\ NodesPerLabel["Person"] = 2
    /\ NodesPerLabel["Company"] = 1
    /\ NodesPerLabel["BusinessRule"] = first_load[1].nodes["BusinessRule"]
    /\ NodesPerLabel["BusinessRule"] > 1

====
